---- MODULE Spec2Model ----
(***************************************************************************)
(* The memory engine of the LocalBrain browser extension                   *)
(* (src/src/content-script.js, classes MemoryEngine and                    *)
(* BackendIntegration): the in-memory collection, its persisted copy in    *)
(* chrome.storage.local, the search cache, and the operations on them.     *)
(*                                                                         *)
(* A JavaScript string is a sequence of one-character strings, so that     *)
(* trim, split, toLowerCase, includes and substring are computed as the    *)
(* code computes them.  Date.now() is the variable now, counted in         *)
(* minutes.                                                                *)
(***************************************************************************)
EXTENDS Integers, Sequences, FiniteSets, TLC

(***************************************************************************)
(* Strings                                                                 *)
(***************************************************************************)
Upper == <<"A", "B", "C", "D", "E", "F", "G", "H", "I", "J", "K", "L", "M", "N", "O", "P", "Q", "R", "S", "T", "U", "V", "W", "X", "Y", "Z">>
Lower == <<"a", "b", "c", "d", "e", "f", "g", "h", "i", "j", "k", "l", "m", "n", "o", "p", "q", "r", "s", "t", "u", "v", "w", "x", "y", "z">>
Digits == {"0", "1", "2", "3", "4", "5", "6", "7", "8", "9"}

Range(f) == {f[i] : i \in DOMAIN f}

Min(a, b) == IF a < b THEN a ELSE b

Max(a, b) == IF a > b THEN a ELSE b

\* \s of a JavaScript regular expression (the characters the model uses)
Whitespace == {" ", "\n", "\t"}

\* \w of a JavaScript regular expression
WordChars == Range(Upper) \cup Range(Lower) \cup Digits \cup {"_"}

ToLowerChar(ch) ==
  IF ch \in Range(Upper) THEN Lower[CHOOSE i \in DOMAIN Upper : Upper[i] = ch] ELSE ch

\* String.prototype.toLowerCase
ToLowerCase(s) == [i \in DOMAIN s |-> ToLowerChar(s[i])]

RECURSIVE DropWhile(_, _)
DropWhile(s, class) ==
  IF s # <<>> /\ Head(s) \in class THEN DropWhile(Tail(s), class) ELSE s

RECURSIVE DropWhileEnd(_, _)
DropWhileEnd(s, class) ==
  IF s # <<>> /\ s[Len(s)] \in class
    THEN DropWhileEnd(SubSeq(s, 1, Len(s) - 1), class)
    ELSE s

\* String.prototype.trim
Trim(s) == DropWhileEnd(DropWhile(s, Whitespace), Whitespace)

\* String.prototype.split(/[class]+/): the pieces between the maximal runs of
\* characters of class; a leading or trailing run yields an empty piece, and
\* the empty string yields one empty piece.
RECURSIVE SplitRuns(_, _, _)
SplitRuns(s, class, cur) ==
  IF \A i \in DOMAIN s : s[i] \notin class THEN <<cur \o s>>
  ELSE LET i == CHOOSE i \in DOMAIN s :
                  s[i] \in class /\ \A j \in 1..(i - 1) : s[j] \notin class
       IN <<cur \o SubSeq(s, 1, i - 1)>>
            \o SplitRuns(DropWhile(SubSeq(s, i, Len(s)), class), class, <<>>)

Split(s, class) == SplitRuns(s, class, <<>>)

\* String.prototype.includes
Includes(text, kw) ==
  \E i \in 1..(Len(text) - Len(kw) + 1) : SubSeq(text, i, i + Len(kw) - 1) = kw

\* String.prototype.substring(0, n)
Substring0(s, n) == SubSeq(s, 1, Min(n, Len(s)))

\* Array.prototype.join
RECURSIVE Join(_, _)
Join(parts, sep) ==
  IF parts = <<>> THEN <<>>
  ELSE IF Len(parts) = 1 THEN parts[1]
  ELSE parts[1] \o sep \o Join(Tail(parts), sep)

\* [...new Set(array)]: the first occurrence of every element, in order
RECURSIVE Unique(_)
Unique(s) ==
  IF s = <<>> THEN <<>>
  ELSE LET init == Unique(SubSeq(s, 1, Len(s) - 1))
       IN IF s[Len(s)] \in Range(init) THEN init ELSE Append(init, s[Len(s)])

(***************************************************************************)
(* The contents that callers save                                          *)
(***************************************************************************)
ContentA == <<"f", "i", "x", " ", "a", "p", "i", " ", "c", " ", "d", " ", "e", " ", "f">>

\* Six of its seven words are those of ContentA: similarity 6/7 > 0.85
ContentB == <<" ", "F", "i", "x", " ", "a", "p", "i", " ", "c", " ", "d", " ", "e", " ", "f", " ", "g", " ">>

\* Its five words are five of the six of ContentA: similarity 5/6 < 0.85
ContentC == <<"f", "i", "x", " ", "a", "p", "i", " ", "c", " ", "d", " ", "e">>

ContentF == <<"f">>

Contents == {ContentA, ContentB, ContentC, ContentF}

\* A blank content
ContentE == <<" ">>

AllContents == Contents \cup {ContentE}

\* No record is the target of more than MaxMerges conversation merges
MaxMerges == 1

\* The trimmed contents with at most n trimmed contents appended to them
RECURSIVE MergedTexts(_)
MergedTexts(n) ==
  LET trimmed == {Trim(c) : c \in AllContents}
  IN IF n = 0 THEN trimmed
     ELSE LET shorter == MergedTexts(n - 1)
          IN shorter \cup {a \o <<"\n", "\n">> \o b : a \in shorter, b \in trimmed}

\* The texts whose analysis is computed once and looked up afterwards: the
\* contents as callers pass them and as records hold them
Texts == AllContents \cup MergedTexts(MaxMerges)

(***************************************************************************)
(* The rule-based analyzers of MemoryEngine                                *)
(***************************************************************************)
CategoryEnum ==
  {"code", "troubleshooting", "how-to", "explanation", "comparison",
   "recommendation", "example", "general"}

CodeWords ==
  {<<"c", "o", "d", "e">>,
   <<"f", "u", "n", "c", "t", "i", "o", "n">>,
   <<"a", "p", "i">>}

TroubleshootingWords ==
  {<<"e", "r", "r", "o", "r">>,
   <<"b", "u", "g">>,
   <<"f", "i", "x">>,
   <<"i", "s", "s", "u", "e">>}

HowToWords ==
  {<<"h", "o", "w", " ", "t", "o">>,
   <<"t", "u", "t", "o", "r", "i", "a", "l">>,
   <<"g", "u", "i", "d", "e">>,
   <<"s", "t", "e", "p">>}

ExplanationWords ==
  {<<"e", "x", "p", "l", "a", "i", "n">>,
   <<"w", "h", "a", "t", " ", "i", "s">>,
   <<"d", "e", "f", "i", "n", "i", "t", "i", "o", "n">>}

ComparisonWords ==
  {<<"c", "o", "m", "p", "a", "r", "e">>,
   <<"d", "i", "f", "f", "e", "r", "e", "n", "c", "e">>,
   <<"v", "s">>}

RecommendationWords ==
  {<<"b", "e", "s", "t">>,
   <<"r", "e", "c", "o", "m", "m", "e", "n", "d">>,
   <<"s", "u", "g", "g", "e", "s", "t">>}

ExampleWords ==
  {<<"e", "x", "a", "m", "p", "l", "e">>,
   <<"s", "a", "m", "p", "l", "e">>,
   <<"i", "n", "s", "t", "a", "n", "c", "e">>}

IncludesAny(text, words) == \E w \in words : Includes(text, w)

\* The backquote character (U+0060), which a TLA+ string cannot hold
Backquote == "BACKQUOTE"

Fence == <<Backquote, Backquote, Backquote>>

\* The code-fence test of categorizeContent: a fence, anything, a fence
HasCodeFence(content) ==
  \E i, j \in 1..Len(content) :
    /\ j >= i + 3
    /\ j + 2 <= Len(content)
    /\ SubSeq(content, i, i + 2) = Fence
    /\ SubSeq(content, j, j + 2) = Fence

\* A variant of CategoryOfText that makes the how-to test first
CategoryOfTextHowToFirst(content) ==
  LET text == ToLowerCase(content)
  IN CASE IncludesAny(text, HowToWords) -> "how-to"
       [] IncludesAny(text, CodeWords) \/ HasCodeFence(content) -> "code"
       [] IncludesAny(text, TroubleshootingWords) -> "troubleshooting"
       [] IncludesAny(text, ExplanationWords) -> "explanation"
       [] IncludesAny(text, ComparisonWords) -> "comparison"
       [] IncludesAny(text, RecommendationWords) -> "recommendation"
       [] IncludesAny(text, ExampleWords) -> "example"
       [] OTHER -> "general"

\* MemoryEngine.categorizeContent: the first keyword group that matches
CategoryOfText(content) ==
  LET text == ToLowerCase(content)
  IN CASE IncludesAny(text, CodeWords) \/ HasCodeFence(content) -> "code"
       [] IncludesAny(text, TroubleshootingWords) -> "troubleshooting"
       [] IncludesAny(text, HowToWords) -> "how-to"
       [] IncludesAny(text, ExplanationWords) -> "explanation"
       [] IncludesAny(text, ComparisonWords) -> "comparison"
       [] IncludesAny(text, RecommendationWords) -> "recommendation"
       [] IncludesAny(text, ExampleWords) -> "example"
       [] OTHER -> "general"

\* The categories of the contents, computed once
CategoryTable == [t \in Texts |-> CategoryOfText(t)]

categorizeContent(content) ==
  IF content \in Texts THEN CategoryTable[content] ELSE CategoryOfText(content)

IsLongSentence(s) == Len(Trim(s)) > 10

\* The common body of generateSummary and fallbackGenerateSummary: the
\* first three sentences of more than 10 characters joined by ". ", cut to
\* maxLength characters plus "..."; without such a sentence the first
\* noSentenceLength characters of the content.
Summarize(content, maxLength, noSentenceLength) ==
  LET sentences == SelectSeq(Split(content, {".", "!", "?"}), IsLongSentence)
      summary == Join(SubSeq(sentences, 1, Min(3, Len(sentences))), <<".", " ">>)
  IN IF Len(sentences) = 0 THEN Substring0(content, noSentenceLength)
     ELSE IF Len(summary) > maxLength
       THEN Substring0(summary, maxLength) \o <<".", ".", ".">>
       ELSE summary

\* The summaries of the contents, computed once
SummaryTable == [t \in Texts |-> Summarize(t, 150, 100)]

\* MemoryEngine.generateSummary
generateSummary(content) ==
  IF content \in Texts THEN SummaryTable[content] ELSE Summarize(content, 150, 100)

TechnicalTerms ==
  <<<<"j", "a", "v", "a", "s", "c", "r", "i", "p", "t">>,
   <<"p", "y", "t", "h", "o", "n">>,
   <<"r", "e", "a", "c", "t">>,
   <<"n", "o", "d", "e">>,
   <<"a", "p", "i">>,
   <<"d", "a", "t", "a", "b", "a", "s", "e">>,
   <<"s", "e", "r", "v", "e", "r">>,
   <<"c", "l", "i", "e", "n", "t">>,
   <<"h", "t", "m", "l">>,
   <<"c", "s", "s">>,
   <<"s", "q", "l">>,
   <<"g", "i", "t">>,
   <<"d", "o", "c", "k", "e", "r">>,
   <<"a", "w", "s">>,
   <<"c", "l", "o", "u", "d">>,
   <<"s", "e", "c", "u", "r", "i", "t", "y">>,
   <<"p", "e", "r", "f", "o", "r", "m", "a", "n", "c", "e">>>>

RECURSIVE TakeWhile(_, _)
TakeWhile(s, class) ==
  IF s # <<>> /\ Head(s) \in class
    THEN <<Head(s)>> \o TakeWhile(Tail(s), class)
    ELSE <<>>

\* content.match(/#[\w]+/g) with the leading # removed from every match
RECURSIVE HashTags(_)
HashTags(s) ==
  LET IsTag(i) == s[i] = "#" /\ i < Len(s) /\ s[i + 1] \in WordChars
  IN IF \A i \in DOMAIN s : ~IsTag(i) THEN <<>>
     ELSE LET i == CHOOSE i \in DOMAIN s : IsTag(i) /\ \A j \in 1..(i - 1) : ~IsTag(j)
              run == TakeWhile(SubSeq(s, i + 1, Len(s)), WordChars)
          IN <<run>> \o HashTags(SubSeq(s, i + Len(run) + 1, Len(s)))

\* MemoryEngine.extractTags: hashtags, then the technical terms the text
\* includes, without repetitions
TagsOfText(content) ==
  LET text == ToLowerCase(content)
      IsIncluded(term) == Includes(text, term)
  IN Unique(HashTags(content) \o SelectSeq(TechnicalTerms, IsIncluded))

\* The tags of the contents, computed once
TagsTable == [t \in Texts |-> TagsOfText(t)]

extractTags(content) ==
  IF content \in Texts THEN TagsTable[content] ELSE TagsOfText(content)

(***************************************************************************)
(* Duplicate detection                                                     *)
(***************************************************************************)
\* new Set(text.toLowerCase().split(/\s+/))
WordSetOfText(text) == Range(Split(ToLowerCase(text), Whitespace))

\* The word sets of the contents, computed once
WordSetTable == [t \in Texts |-> WordSetOfText(t)]

WordSet(text) ==
  IF text \in Texts THEN WordSetTable[text] ELSE WordSetOfText(text)

\* calculateSimilarity returns SimilarityNum / SimilarityDen; the word set
\* of any string has at least one element (possibly the empty word), so the
\* denominator is never 0.
SimilarityNum(text1, text2) == Cardinality(WordSet(text1) \cap WordSet(text2))

\* A variant of SimilarityDen that counts the words of the first text
SimilarityDenOfFirst(text1, text2) == Cardinality(WordSet(text1))

SimilarityDen(text1, text2) == Cardinality(WordSet(text1) \cup WordSet(text2))

\* calculateSimilarity(text1, text2) > 0.85
SimilarityAboveThreshold(text1, text2) ==
  100 * SimilarityNum(text1, text2) > 85 * SimilarityDen(text1, text2)

\* A variant of isDuplicate without the similarity test
isDuplicateByExactMatch(mems, newMemory) ==
  \E i \in DOMAIN mems : mems[i].content = newMemory.content

\* MemoryEngine.isDuplicate
isDuplicate(mems, newMemory) ==
  \E i \in DOMAIN mems :
    \/ mems[i].content = newMemory.content
    \/ SimilarityAboveThreshold(mems[i].content, newMemory.content)


(***************************************************************************)
(* Constants of the program and bounds of the model                        *)
(***************************************************************************)
\* this.maxMemories (1000 in the source), scaled down to the model's size
maxMemories == 2

\* Time is counted in minutes. timeWindow: the 30-minute conversation
\* window of getCurrentConversationId and findActiveConversation
timeWindow == 30

\* this.cacheTimeout (5 minutes)
cacheTimeout == 5

\* maxAge of cleanupOldMemories (90 days)
maxAge == 129600

\* Date.now() when the page is loaded: the start of a 30-minute window
StartNow == maxAge + timeWindow

\* The instants at which the model looks at the clock: the page load, 4
\* minutes later (the same window, within the cache timeout), 31 minutes
\* later (the next window, 27 minutes after the second instant)
Instants == {StartNow, StartNow + 4, StartNow + 31}

\* Math.random() yields one of RandomRange values; the id of a record is
\* Date.now() + Math.random()
RandomValues == {0, 1}

RandomRange == Cardinality(RandomValues)

(***************************************************************************)
(* Inputs                                                                  *)
(***************************************************************************)
HrefChat == <<"h", "t", "t", "p", "s", ":", "/", "/", "c", "h", "a", "t", ".", "t", "e", "s", "t", "/", "c", "/", "1">>

HrefHelp == <<"h", "t", "t", "p", "s", ":", "/", "/", "h", "e", "l", "p", ".", "t", "e", "s", "t", "/", "t", "/", "2">>

Hrefs == {HrefChat, HrefHelp}

\* window.location.hostname of a page address
HostnameTable ==
  [h \in Hrefs |-> TakeWhile(SubSeq(h, 9, Len(h)), WordChars \cup {".", "-"})]

Hostname(h) == HostnameTable[h]

\* The metadata argument of saveMemory: an object, as a function of its keys
MetadataInputs == {[type |-> "conversation"]}

TrimTable == [c \in AllContents |-> Trim(c)]

\* content.trim()
TrimContent(content) ==
  IF content \in AllContents THEN TrimTable[content] ELSE Trim(content)

\* { ...base, ...extra }
Spread(base, extra) ==
  [k \in DOMAIN base \cup DOMAIN extra |->
     IF k \in DOMAIN extra THEN extra[k] ELSE base[k]]

(***************************************************************************)
(* JavaScript values of the category field                                 *)
(***************************************************************************)
JsString(s) == [type |-> "string", value |-> s]

(***************************************************************************)
(* State                                                                   *)
(***************************************************************************)
VARIABLES
  now,             \* Date.now()
  href,            \* window.location.href
  memories,        \* MemoryEngine.memories
  initialized,     \* MemoryEngine.initialized
  searchCache,     \* MemoryEngine.searchCache
  storage,         \* chrome.storage.local, key LocalBrain_data
  backendPresent,  \* window.backendIntegration is set
  isConnected,     \* BackendIntegration.isConnected
  fallbackMode,    \* BackendIntegration.fallbackMode
  connectionRetries, \* BackendIntegration.connectionRetries
  probes,          \* the health probes: fetches in flight, retry timers
                   \* pending, fetches issued so far, the delay of the timers
  calls,           \* the calls of saveMemory in flight, one per caller
  last             \* the last call: what it did and what it returned

vars ==
  <<now, href, memories, initialized, searchCache, storage,
    backendPresent, isConnected, fallbackMode, connectionRetries, probes,
    calls, last>>

envVars == <<now, href>>

backendVars ==
  <<backendPresent, isConnected, fallbackMode, connectionRetries, probes>>

engineVars == <<memories, initialized, searchCache>>

\* Return values: null, or a value
Null == [kind |-> "null"]

Value(v) == [kind |-> "value", value |-> v]

\* No call yet
NoCall == [op |-> "none"]

\* The report of a call: the operation, what it did, the number of records
\* it found in the collection, and what it returned
Report(op, outcome, before, returned) ==
  [op |-> op, outcome |-> outcome, before |-> before, ret |-> returned]

\* A record as saveMemory builds it at time t on page h. The
\* conversationId of getCurrentConversationId is the address and the
\* number of the 30-minute window of the clock. The code joins them with
\* "_"; the number is made of digits, so two ids are the same string
\* exactly when the pairs are equal
NewMemory(content, category, summary, tags, metadata, t, h, r) ==
  Spread([id |-> t * RandomRange + r,
          content |-> TrimContent(content),
          timestamp |-> t,
          source |-> Hostname(h),
          url |-> h,
          conversationId |-> <<h, t \div timeWindow>>,
          category |-> category,
          summary |-> summary,
          tags |-> tags],
         metadata)

\* A record that an earlier session saved with the local analyzers
SavedEarlier(content, t, h) ==
  NewMemory(content, JsString(categorizeContent(content)),
            generateSummary(content), extractTags(content),
            [type |-> "conversation"], t, h, 0)

\* What chrome.storage.local holds under LocalBrain_data
Stored(data) == [present |-> TRUE, data |-> data]

NothingStored == [present |-> FALSE, data |-> <<>>]

\* The data of an earlier session: a record of 35 minutes before the page
\* load and one of exactly 90 days before it
EarlierSession ==
  Stored(<<SavedEarlier(ContentC, StartNow - 35, HrefChat),
           SavedEarlier(ContentF, StartNow - maxAge, HrefHelp)>>)

\* this.maxRetries and this.retryDelay (milliseconds) of BackendIntegration
maxRetries == 3

retryDelay == 2000

\* The callers of saveMemory whose calls can be in flight together
Callers == {1, 2}

\* The states <<backendPresent, isConnected, fallbackMode>> of the backend
\* object in which a page can be when the engine is first used: not
\* created; created and connected; created and the first health check not
\* yet answered; created and in fallback mode after the last retry
BackendAbsent == <<FALSE, FALSE, FALSE>>

\* The state after the construction of the engine on a page of hrefs whose
\* stored data is one of stores and whose backend object is in one of
\* backends
Constructed(hrefs, stores, backends) ==
  /\ now = StartNow
  /\ href \in hrefs
  /\ memories = <<>>
  /\ initialized = FALSE
  /\ searchCache = <<>>
  /\ storage \in stores
  /\ \E b \in backends :
       /\ backendPresent = b[1]
       /\ isConnected = b[2]
       /\ fallbackMode = b[3]
       /\ connectionRetries = (IF b[3] THEN maxRetries ELSE 0)
       /\ probes = [pending |-> IF b[1] /\ ~b[2] /\ ~b[3] THEN 1 ELSE 0,
                    timers |-> 0,
                    issued |-> IF ~b[1] THEN 0 ELSE IF b[3] THEN maxRetries + 1 ELSE 1,
                    delay |-> retryDelay]
  /\ calls = [c \in Callers |-> [pc |-> "none"]]
  /\ last = NoCall


(***************************************************************************)
(* The environment: the clock and the page address                         *)
(***************************************************************************)
Tick(t) ==
  /\ t > now
  /\ now' = t
  /\ UNCHANGED <<href, engineVars, storage, backendVars, calls, last>>

Navigate(h) ==
  /\ h # href
  /\ href' = h
  /\ UNCHANGED <<now, engineVars, storage, backendVars, calls, last>>

(***************************************************************************)
(* MemoryEngine.init, cleanupOldMemories and persist                       *)
(***************************************************************************)
\* persist: chrome.storage.local.set completes, or fails and is only logged
Persisted(stored, data, ok) == IF ok THEN Stored(data) ELSE stored

\* A variant of IsYoung that keeps a record of exactly 90 days
IsYoungOrAtLimit(memory) == now - memory.timestamp <= maxAge

\* now - memory.timestamp < maxAge
IsYoung(memory) == now - memory.timestamp < maxAge

\* cleanupOldMemories: the records of less than 90 days
cleanupOldMemories(mems) == SelectSeq(mems, IsYoung)

\* A variant of init that reads LocalBrain_data on every call
initOnEveryCall(loadOk, cleanupOk) ==
  IF loadOk
    THEN LET loaded == IF storage.present THEN storage.data ELSE <<>>
             kept == cleanupOldMemories(loaded)
         IN [memories |-> kept,
             storage |-> IF Len(kept) < Len(loaded)
                           THEN Persisted(storage, kept, cleanupOk)
                           ELSE storage]
    ELSE [memories |-> <<>>, storage |-> storage]

\* init: nothing when initialized; otherwise the read of LocalBrain_data
\* completes (loadOk) or throws, and after a read that completed
\* cleanupOldMemories persists the collection if it dropped a record.
\* The result is the collection and the stored data after init.
init(loadOk, cleanupOk) ==
  IF initialized THEN [memories |-> memories, storage |-> storage]
  ELSE IF loadOk
    THEN LET loaded == IF storage.present THEN storage.data ELSE <<>>
             kept == cleanupOldMemories(loaded)
         IN [memories |-> kept,
             storage |-> IF Len(kept) < Len(loaded)
                           THEN Persisted(storage, kept, cleanupOk)
                           ELSE storage]
    ELSE [memories |-> <<>>, storage |-> storage]

\* The outcomes of the storage calls that a call of init can make
InitOutcomes(loadOk, cleanupOk) ==
  initialized => loadOk /\ cleanupOk

(***************************************************************************)
(* BackendIntegration: the analyzers that saveMemory calls                 *)
(***************************************************************************)
\* fallbackCategorizeContent: the keyword tests of categorizeContent, but
\* the result is an object { category, confidence }
fallbackCategorizeContent(content) ==
  LET c == categorizeContent(content)
  IN [type |-> "object", category |-> c,
      confidence |-> IF c = "general" THEN 50 ELSE 80]

FallbackSummaryTable == [t \in Texts |-> Summarize(t, 150, 150)]

\* fallbackGenerateSummary(content) with maxLength = 150
fallbackGenerateSummary(content) ==
  IF content \in Texts THEN FallbackSummaryTable[content]
  ELSE Summarize(content, 150, 150)

\* fallbackExtractTags
fallbackExtractTags(content) == extractTags(content)

\* if (!this.isConnected || this.fallbackMode)
UsesFallback == ~isConnected \/ fallbackMode

\* result.category of a reply of /api/categorize
BackendCategories == {"explanation"}

\* The outcomes of one request: a reply, or an error or a failed fetch
Outcomes == {"ok", "error"}

\* The three analyzer calls of saveMemory: BackendIntegration's when the
\* object exists (each falls back on its own when the backend is not in use
\* or its request fails), MemoryEngine's otherwise. The replies of
\* /api/summarize and /api/extract-tags hold what the fallbacks compute
Analysis(content, reply, o1, o2, o3) ==
  [category |->
     IF ~backendPresent THEN JsString(categorizeContent(content))
     ELSE IF UsesFallback \/ o1 = "error" THEN fallbackCategorizeContent(content)
     ELSE JsString(reply),
   summary |->
     IF ~backendPresent THEN generateSummary(content)
     ELSE IF UsesFallback \/ o2 = "error" THEN fallbackGenerateSummary(content)
     ELSE fallbackGenerateSummary(content),
   tags |->
     IF ~backendPresent THEN extractTags(content)
     ELSE IF UsesFallback \/ o3 = "error" THEN fallbackExtractTags(content)
     ELSE fallbackExtractTags(content)]

(***************************************************************************)
(* MemoryEngine.saveMemory                                                 *)
(***************************************************************************)
\* A variant of findActiveConversation that looks at the url alone
findConversationByUrl(mems, newMemory) ==
  IF \E i \in DOMAIN mems : mems[i].url = newMemory.url
    THEN CHOOSE i \in DOMAIN mems :
           mems[i].url = newMemory.url /\ \A j \in 1..(i - 1) : mems[j].url # newMemory.url
    ELSE 0

\* A variant of findActiveConversation whose window is 5 minutes
findActiveConversationShortWindow(mems, newMemory) ==
  LET IsActive(i) ==
        /\ mems[i].conversationId = newMemory.conversationId
        /\ now - mems[i].timestamp < 5
  IN IF \E i \in DOMAIN mems : IsActive(i)
       THEN CHOOSE i \in DOMAIN mems :
              IsActive(i) /\ \A j \in 1..(i - 1) : ~IsActive(j)
       ELSE 0

\* A variant of findActiveConversation whose window slides: the url alone
\* tells the conversation
findActiveConversationSliding(mems, newMemory) ==
  LET IsActive(i) ==
        /\ mems[i].url = newMemory.url
        /\ now - mems[i].timestamp < timeWindow
  IN IF \E i \in DOMAIN mems : IsActive(i)
       THEN CHOOSE i \in DOMAIN mems :
              IsActive(i) /\ \A j \in 1..(i - 1) : ~IsActive(j)
       ELSE 0

\* findActiveConversation: the index of the first record of the same
\* conversation whose timestamp is less than 30 minutes old, or 0
findActiveConversation(mems, newMemory) ==
  LET IsActive(i) ==
        /\ mems[i].conversationId = newMemory.conversationId
        /\ now - mems[i].timestamp < timeWindow
  IN IF \E i \in DOMAIN mems : IsActive(i)
       THEN CHOOSE i \in DOMAIN mems :
              IsActive(i) /\ \A j \in 1..(i - 1) : ~IsActive(j)
       ELSE 0

\* A variant of Appended that leaves the content as it is
AppendedWithoutContent(existing, newContent) ==
  Spread(existing, [timestamp |-> now, lastUpdated |-> now])

\* A variant of Appended that puts the new content first
AppendedInFront(existing, newContent) ==
  Spread(existing,
         [content |-> newContent \o <<"\n", "\n">> \o existing.content,
          timestamp |-> now,
          lastUpdated |-> now])

\* A variant of Appended that keeps the category, the summary and the tags
AppendedWithoutAnalysis(existing, newContent) ==
  Spread(existing,
         [content |-> existing.content \o <<"\n", "\n">> \o newContent,
          timestamp |-> now,
          lastUpdated |-> now])

\* The record after newContent is appended to it
Appended(existing, newContent) ==
  LET content == existing.content \o <<"\n", "\n">> \o newContent
  IN Spread(existing,
            [content |-> content,
             timestamp |-> now,
             lastUpdated |-> now,
             category |-> JsString(categorizeContent(content)),
             summary |-> generateSummary(content),
             tags |-> extractTags(content)])

\* A variant of Unshifted without the cut
UnshiftedWithoutCut(mems, memory) == <<memory>> \o mems

\* this.memories.unshift(memory), then the cut to maxMemories
Unshifted(mems, memory) ==
  LET all == <<memory>> \o mems
  IN IF Len(all) > maxMemories THEN SubSeq(all, 1, maxMemories) ELSE all

\* The number of merges that produced a content: the contents that callers
\* save hold no line break, and every merge adds two
MergeCount(content) ==
  Cardinality({k \in DOMAIN content : content[k] = "\n"}) \div 2

\* The record that saveMemory builds after the analyzer calls
Candidate(content, metadata, reply, o1, o2, o3, r) ==
  LET a == Analysis(content, reply, o1, o2, o3)
  IN NewMemory(content, a.category, a.summary, a.tags, metadata, now, href, r)

\* A variant of SaveOutcome that makes the merge test first
SaveOutcomeMergeFirst(mems, memory) ==
  IF findActiveConversation(mems, memory) # 0 THEN "MERGED"
  ELSE IF isDuplicate(mems, memory) THEN "DUPLICATE"
  ELSE "CREATED"

\* "DUPLICATE", "MERGED" or "CREATED": what saveMemory does with the record
\* memory when the collection is mems
SaveOutcome(mems, memory) ==
  IF isDuplicate(mems, memory) THEN "DUPLICATE"
  ELSE IF findActiveConversation(mems, memory) # 0 THEN "MERGED"
  ELSE "CREATED"

saveMemory(content, metadata, reply, o1, o2, o3, loadOk, cleanupOk, writes, randoms) ==
  /\ InitOutcomes(loadOk, cleanupOk)
  /\ ~(backendPresent /\ ~UsesFallback) => o1 = "ok" /\ o2 = "ok" /\ o3 = "ok"
  /\ LET loaded == init(loadOk, cleanupOk)
         probe == Candidate(content, metadata, reply, o1, o2, o3, 0)
         i == findActiveConversation(loaded.memories, probe)
         outcome == SaveOutcome(loaded.memories, probe)
         before == Len(loaded.memories)
     IN /\ initialized' = TRUE
        /\ CASE outcome = "DUPLICATE" ->
                  /\ memories' = loaded.memories
                  /\ storage' = loaded.storage
                  /\ last' = Report("saveMemory", outcome, before, Null)
                  /\ UNCHANGED searchCache
             [] outcome = "MERGED" ->
                  LET merged == [loaded.memories EXCEPT
                                   ![i] = Appended(@, probe.content)]
                  IN /\ MergeCount(loaded.memories[i].content) < MaxMerges
                     /\ memories' = merged
                     /\ \E persistOk \in writes :
                          storage' = Persisted(loaded.storage, merged, persistOk)
                     /\ last' = Report("saveMemory", outcome, before, Value(merged[i]))
                     /\ UNCHANGED searchCache
             [] outcome = "CREATED" ->
                  \E r \in randoms :
                    LET memory == [probe EXCEPT !.id = now * RandomRange + r]
                        created == Unshifted(loaded.memories, memory)
                    IN /\ memories' = created
                       /\ searchCache' = <<>>
                       /\ \E persistOk \in writes :
                            storage' = Persisted(loaded.storage, created, persistOk)
                       /\ last' = Report("saveMemory", outcome, before, Value(memory))
  /\ UNCHANGED <<envVars, backendVars, calls>>

(***************************************************************************)
(* MemoryEngine.saveMemory, one step per task of the event loop: a call    *)
(* runs until it awaits a storage call or a request that is in flight,     *)
(* and resumes when that completes. calls[k].pc is "none" before the call, *)
(* "loading" during the read of init, "requesting" during a request of an  *)
(* analyzer, "persisting" during the write of persist, "returned" at the   *)
(* end, and "ready" when what the call awaited is settled and the rest of  *)
(* the call is queued as a microtask: the event loop runs the microtasks   *)
(* before it delivers the next completion                                  *)
(***************************************************************************)
\* saveMemory(content, metadata) is called: init returns at once when the
\* engine is initialized, and otherwise starts the read of LocalBrain_data.
\* during: the callers whose calls are in flight at this moment; racing,
\* later: the callers whose write is in flight when this call has made
\* its duplicate test and its merge test
saveMemoryCalled(k, content, metadata) ==
  /\ calls[k].pc = "none"
  /\ calls' = [calls EXCEPT ![k] =
       [pc |-> IF initialized THEN "ready" ELSE "loading",
        content |-> content, metadata |-> metadata, answers |-> <<>>,
        during |-> {j \in Callers : calls[j].pc \notin {"none", "returned"}}]]
  /\ UNCHANGED <<engineVars, storage, envVars, backendVars, last>>

\* The read that the init of caller k started completes (loadOk) or throws:
\* the collection is replaced by what was read and cleanupOldMemories runs
\* (its write, if it makes one, is taken to complete at once)
saveMemoryLoaded(k, loadOk, cleanupOk) ==
  /\ calls[k].pc = "loading"
  /\ \A j \in Callers : calls[j].pc # "ready"
  /\ LET loaded == IF loadOk /\ storage.present THEN storage.data ELSE <<>>
         kept == cleanupOldMemories(loaded)
     IN /\ Len(kept) = Len(loaded) => cleanupOk
        /\ memories' = kept
        /\ storage' = IF Len(kept) < Len(loaded)
                        THEN Persisted(storage, kept, cleanupOk)
                        ELSE storage
  /\ initialized' = TRUE
  /\ calls' = [calls EXCEPT ![k] = [@ EXCEPT !.pc = "ready"]]
  /\ UNCHANGED <<searchCache, envVars, backendVars, last>>

\* The request that an analyzer call of caller k awaits is answered (o is
\* "ok") or fails (o is "error"); nothing makes a request that is never
\* answered end
saveMemoryAnswered(k, o) ==
  /\ calls[k].pc = "requesting"
  /\ \A j \in Callers : calls[j].pc # "ready"
  /\ calls' = [calls EXCEPT ![k] =
                 [@ EXCEPT !.pc = "ready", !.answers = Append(@, o)]]
  /\ UNCHANGED <<engineVars, storage, envVars, backendVars, last>>

\* The call of caller k resumes: the next analyzer call (it awaits a
\* request when the backend is in use; three answers are needed), or, once
\* the analyzers are done, in one synchronous run the record, the
\* duplicate test, the merge or the creation, and the call of persist,
\* which hands the collection of that moment to chrome.storage.local.set
saveMemoryResumed(k) ==
  /\ calls[k].pc = "ready"
  /\ IF backendPresent /\ ~UsesFallback /\ Len(calls[k].answers) < 3
       THEN /\ calls' = [calls EXCEPT ![k] = [@ EXCEPT !.pc = "requesting"]]
            /\ UNCHANGED <<memories, searchCache, last>>
       ELSE \E reply \in BackendCategories :
         LET call == calls[k]
             o == call.answers \o <<"ok", "ok", "ok">>
             probe == Candidate(call.content, call.metadata, reply, o[1], o[2], o[3], 0)
             i == findActiveConversation(memories, probe)
             outcome == SaveOutcome(memories, probe)
             Awaiting(snapshot, returned) ==
               [pc |-> "persisting", content |-> call.content,
                during |-> call.during, outcome |-> outcome,
                before |-> Len(memories), snapshot |-> snapshot,
                returned |-> returned,
                racing |-> {j \in Callers : calls[j].pc = "persisting"}]
         IN CASE outcome = "DUPLICATE" ->
                   /\ calls' = [calls EXCEPT ![k] =
                                  [pc |-> "returned", content |-> call.content,
                                   during |-> call.during, outcome |-> outcome]]
                   /\ last' = Report("saveMemory", outcome, Len(memories), Null)
                   /\ UNCHANGED <<memories, searchCache>>
              [] outcome = "MERGED" ->
                   LET merged == [memories EXCEPT ![i] = Appended(@, probe.content)]
                   IN /\ MergeCount(memories[i].content) < MaxMerges
                      /\ memories' = merged
                      /\ calls' = [calls EXCEPT ![k] = Awaiting(merged, merged[i])]
                      /\ UNCHANGED <<searchCache, last>>
              [] outcome = "CREATED" ->
                   LET memory == [probe EXCEPT !.id = now * RandomRange]
                       created == Unshifted(memories, memory)
                   IN /\ memories' = created
                      /\ searchCache' = <<>>
                      /\ calls' = [calls EXCEPT ![k] = Awaiting(created, memory)]
                      /\ UNCHANGED last
  /\ UNCHANGED <<initialized, storage, envVars, backendVars>>

\* The write that the persist of caller k started completes or fails, and
\* the call returns its record
saveMemoryPersisted(k, persistOk) ==
  /\ calls[k].pc = "persisting"
  /\ \A j \in Callers : calls[j].pc # "ready"
  /\ storage' = Persisted(storage, calls[k].snapshot, persistOk)
  /\ calls' = [calls EXCEPT ![k] =
                 [pc |-> "returned", content |-> @.content, during |-> @.during,
                  outcome |-> @.outcome, returned |-> @.returned,
                  racing |-> @.racing, written |-> persistOk]]
  /\ last' = Report("saveMemory", calls[k].outcome, calls[k].before,
                    Value(calls[k].returned))
  /\ UNCHANGED <<memories, initialized, searchCache, envVars, backendVars>>

(***************************************************************************)
(* Relevance scoring: preprocessText, calculateTFIDFScores,                *)
(* getRelevantMemories                                                     *)
(***************************************************************************)
Stopwords ==
  {<<"t", "h", "e">>,
   <<"a">>,
   <<"a", "n">>,
   <<"a", "n", "d">>,
   <<"o", "r">>,
   <<"b", "u", "t">>,
   <<"i", "n">>,
   <<"o", "n">>,
   <<"a", "t">>,
   <<"t", "o">>,
   <<"f", "o", "r">>,
   <<"o", "f">>,
   <<"w", "i", "t", "h">>,
   <<"b", "y">>,
   <<"i", "s">>,
   <<"a", "r", "e">>,
   <<"w", "a", "s">>,
   <<"w", "e", "r", "e">>,
   <<"b", "e">>,
   <<"b", "e", "e", "n">>,
   <<"b", "e", "i", "n", "g">>,
   <<"h", "a", "v", "e">>,
   <<"h", "a", "s">>,
   <<"h", "a", "d">>,
   <<"d", "o">>,
   <<"d", "o", "e", "s">>,
   <<"d", "i", "d">>,
   <<"w", "i", "l", "l">>,
   <<"w", "o", "u", "l", "d">>,
   <<"c", "o", "u", "l", "d">>,
   <<"s", "h", "o", "u", "l", "d">>,
   <<"m", "a", "y">>,
   <<"m", "i", "g", "h", "t">>,
   <<"m", "u", "s", "t">>,
   <<"c", "a", "n">>,
   <<"s", "h", "a", "l", "l">>,
   <<"i">>,
   <<"y", "o", "u">>,
   <<"h", "e">>,
   <<"s", "h", "e">>,
   <<"i", "t">>,
   <<"w", "e">>,
   <<"t", "h", "e", "y">>,
   <<"m", "e">>,
   <<"h", "i", "m">>,
   <<"h", "e", "r">>,
   <<"u", "s">>,
   <<"t", "h", "e", "m">>,
   <<"m", "y">>,
   <<"y", "o", "u", "r">>,
   <<"h", "i", "s">>,
   <<"i", "t", "s">>,
   <<"o", "u", "r">>,
   <<"t", "h", "e", "i", "r">>,
   <<"t", "h", "i", "s">>,
   <<"t", "h", "a", "t">>,
   <<"t", "h", "e", "s", "e">>,
   <<"t", "h", "o", "s", "e">>,
   <<"w", "h", "a", "t">>,
   <<"w", "h", "e", "r", "e">>,
   <<"w", "h", "e", "n">>,
   <<"w", "h", "y">>,
   <<"h", "o", "w">>,
   <<"w", "h", "i", "c", "h">>,
   <<"w", "h", "o">>,
   <<"w", "h", "o", "m">>,
   <<"w", "h", "o", "s", "e">>,
   <<"i", "f">>,
   <<"t", "h", "e", "n">>,
   <<"e", "l", "s", "e">>,
   <<"s", "o">>,
   <<"b", "e", "c", "a", "u", "s", "e">>,
   <<"s", "i", "n", "c", "e">>,
   <<"w", "h", "i", "l", "e">>,
   <<"d", "u", "r", "i", "n", "g">>,
   <<"b", "e", "f", "o", "r", "e">>,
   <<"a", "f", "t", "e", "r">>,
   <<"a", "b", "o", "v", "e">>,
   <<"b", "e", "l", "o", "w">>,
   <<"u", "p">>,
   <<"d", "o", "w", "n">>,
   <<"o", "u", "t">>,
   <<"o", "f", "f">>,
   <<"o", "v", "e", "r">>,
   <<"u", "n", "d", "e", "r">>,
   <<"a", "g", "a", "i", "n">>,
   <<"f", "u", "r", "t", "h", "e", "r">>,
   <<"o", "n", "c", "e">>,
   <<"h", "e", "r", "e">>,
   <<"t", "h", "e", "r", "e">>,
   <<"e", "v", "e", "r", "y", "w", "h", "e", "r", "e">>,
   <<"a", "n", "y", "w", "h", "e", "r", "e">>,
   <<"s", "o", "m", "e", "w", "h", "e", "r", "e">>,
   <<"n", "o", "w", "h", "e", "r", "e">>,
   <<"a", "l", "l">>,
   <<"a", "n", "y">>,
   <<"b", "o", "t", "h">>,
   <<"e", "a", "c", "h">>,
   <<"f", "e", "w">>,
   <<"m", "o", "r", "e">>,
   <<"m", "o", "s", "t">>,
   <<"o", "t", "h", "e", "r">>,
   <<"s", "o", "m", "e">>,
   <<"s", "u", "c", "h">>,
   <<"n", "o">>,
   <<"n", "o", "r">>,
   <<"n", "o", "t">>,
   <<"o", "n", "l", "y">>,
   <<"o", "w", "n">>,
   <<"s", "a", "m", "e">>,
   <<"t", "h", "a", "n">>,
   <<"t", "o", "o">>,
   <<"v", "e", "r", "y">>,
   <<"j", "u", "s", "t">>,
   <<"n", "o", "w">>}

\* text.toLowerCase().replace(/[^\w\s]/g, ' ').split(/\s+/), then the words
\* of more than 2 characters that are no stopwords
preprocessText(text) ==
  LET Cleaned(ch) == IF ch \in WordChars \cup Whitespace THEN ch ELSE " "
      lower == ToLowerCase(text)
      cleaned == [k \in DOMAIN lower |-> Cleaned(lower[k])]
      IsTerm(word) == Len(word) > 2 /\ word \notin Stopwords
  IN SelectSeq(Split(cleaned, Whitespace), IsTerm)

\* memory.content + ' ' + (memory.summary || '') + ' ' + (memory.tags || []).join(' ')
DocumentText(memory) ==
  memory.content \o <<" ">> \o memory.summary \o <<" ">> \o Join(memory.tags, <<" ">>)

\* The terms of the texts of the records, computed once per text
TermsTable ==
  [t \in Texts |->
     preprocessText(DocumentText([content |-> t, summary |-> generateSummary(t),
                                  tags |-> extractTags(t)]))]

\* The terms of a record: those of the table when the summary and the tags
\* are the ones the local analyzers derive from the content
DocumentTerms(memory) ==
  IF /\ memory.content \in Texts
     /\ memory.summary = generateSummary(memory.content)
     /\ memory.tags = extractTags(memory.content)
    THEN TermsTable[memory.content]
    ELSE preprocessText(DocumentText(memory))

\* Math.log(n) in millionths, rounded, for the numbers of documents that
\* the model reaches
LnMillionths ==
  <<0, 693147, 1098612, 1386294, 1609438, 1791759, 1945910, 2079442>>

\* The terms that name a property which the object of getTermFrequencies
\* inherits from Object.prototype: terms are lower-cased words of \w
\* characters, and these are the inherited names of that form
InheritedKeys ==
  {<<"c", "o", "n", "s", "t", "r", "u", "c", "t", "o", "r">>,
   <<"_", "_", "p", "r", "o", "t", "o", "_", "_">>}

\* getTermFrequencies(terms)[term] || 0 for a term that is no inherited key
TermCount(terms, term) == Cardinality({k \in DOMAIN terms : terms[k] = term})

\* calculateIDF in millionths: 0 when no document has the term, otherwise
\* Math.log(documents.length / documentsWithTerm)
calculateIDF(term, documents) ==
  LET documentsWithTerm ==
        Cardinality({d \in DOMAIN documents : term \in Range(documents[d])})
  IN IF documentsWithTerm = 0 THEN 0
     ELSE LnMillionths[Len(documents)] - LnMillionths[documentsWithTerm]

RECURSIVE SumOver(_, _, _)
SumOver(queryTerms, docTerms, documents) ==
  IF queryTerms = <<>> THEN 0
  ELSE TermCount(docTerms, Head(queryTerms)) * calculateIDF(Head(queryTerms), documents)
         + SumOver(Tail(queryTerms), docTerms, documents)

\* calculateDocumentScore as a fraction <<numerator, denominator>> of
\* integers: the sum of tf * idf over the query terms, divided by the
\* number of query terms. The source computes it in floating point.
\* For a query term that is an inherited key, docTermCounts[queryTerm] is
\* the inherited property (or, when the document has the term, the text
\* that getTermFrequencies made by adding 1 to that property): it is
\* truthy and no number, its quotient by the length is NaN, and so are the
\* product with the idf and every sum and quotient made of it. NaN is the
\* fraction <<0, 0>>: every comparison of it with a number is false
calculateDocumentScore(queryTerms, docTerms, documents) ==
  IF \E k \in DOMAIN queryTerms : queryTerms[k] \in InheritedKeys
    THEN <<0, 0>>
    ELSE <<SumOver(queryTerms, docTerms, documents),
           Max(Len(docTerms), 1) * Max(Len(queryTerms), 1)>>

\* b.score - a.score > 0: b comes before a in the sort
ScoreGreater(b, a) == b[1] * a[2] > a[1] * b[2]

\* calculateTFIDFScores: every record with its terms and its score
calculateTFIDFScores(query, mems) ==
  LET queryTerms == preprocessText(query)
      documents == [d \in DOMAIN mems |-> DocumentTerms(mems[d])]
  IN [d \in DOMAIN mems |->
        Spread(mems[d],
               [terms |-> documents[d],
                score |-> calculateDocumentScore(queryTerms, documents[d], documents)])]

\* A variant of SortByScore that leaves the order as it is
NotSortedByScore(items) == items

\* Array.prototype.sort((a, b) => b.score - a.score): stable, descending
RECURSIVE SortByScore(_)
SortByScore(items) ==
  IF items = <<>> THEN <<>>
  ELSE LET sorted == SortByScore(SubSeq(items, 1, Len(items) - 1))
           x == items[Len(items)]
           ahead == {k \in DOMAIN sorted : ~ScoreGreater(x.score, sorted[k].score)}
           n == Cardinality(ahead)
       IN SubSeq(sorted, 1, n) \o <<x>> \o SubSeq(sorted, n + 1, Len(sorted))

\* Array.prototype.slice(start, end) for 0 <= start
Slice(s, start, end) == SubSeq(s, start + 1, Min(end, Len(s)))

\* The results that getRelevantMemories computes for a query of 3
\* characters or more
RankedResults(query, limit, page, mems) ==
  LET scored == calculateTFIDFScores(query, mems)
      IsRelevant(m) == 20 * m.score[1] > 1000000 * m.score[2]
  IN Slice(SortByScore(SelectSeq(scored, IsRelevant)), page * limit, (page + 1) * limit)

\* this.pageSize
pageSize == 50

\* String(n) for 0 <= n < 100
DecimalDigits == <<"0", "1", "2", "3", "4", "5", "6", "7", "8", "9">>

NumberToString(n) ==
  IF n < 10 THEN <<DecimalDigits[n + 1]>>
  ELSE <<DecimalDigits[(n \div 10) + 1], DecimalDigits[(n % 10) + 1]>>

\* The cache key: the query, the limit and the page joined by underscores
CacheKey(query, limit, page) ==
  query \o <<"_">> \o NumberToString(limit) \o <<"_">> \o NumberToString(page)

\* A variant of IsCached that takes an entry of any age
IsCachedAtAnyAge(key) ==
  key \in DOMAIN searchCache

\* The entry of key is there and less than cacheTimeout old
IsCached(key) ==
  /\ key \in DOMAIN searchCache
  /\ now - searchCache[key].timestamp < cacheTimeout

Undefined == [kind |-> "undefined"]

\* getRelevantMemories: init, then the most recent records for a query of
\* less than 3 characters, the cached results when there are fresh ones,
\* the ranked results otherwise, which it caches
getRelevantMemories(query, limit, page, loadOk, cleanupOk) ==
  /\ InitOutcomes(loadOk, cleanupOk)
  /\ LET loaded == init(loadOk, cleanupOk)
         before == Len(loaded.memories)
         key == CacheKey(query, limit, page)
     IN /\ initialized' = TRUE
        /\ memories' = loaded.memories
        /\ storage' = loaded.storage
        /\ IF Len(Trim(query)) < 3
             THEN /\ last' = Report("getRelevantMemories", "RECENT", before,
                                    Value(Slice(loaded.memories, page * pageSize,
                                                page * pageSize + limit)))
                  /\ UNCHANGED searchCache
           ELSE IF IsCached(key)
             THEN /\ last' = Report("getRelevantMemories", "CACHED", before,
                                    Value(searchCache[key].results))
                  /\ UNCHANGED searchCache
           ELSE LET results == RankedResults(query, limit, page, loaded.memories)
                IN /\ searchCache' =
                        [k \in DOMAIN searchCache \cup {key} |->
                           IF k = key THEN [results |-> results, timestamp |-> now]
                           ELSE searchCache[k]]
                   /\ last' = Report("getRelevantMemories", "COMPUTED", before,
                                     Value(results))
  /\ UNCHANGED <<envVars, backendVars, calls>>

(***************************************************************************)
(* The other operations of MemoryEngine on the collection. None of them    *)
(* calls init                                                              *)
(***************************************************************************)
\* clearAllMemories
clearAllMemories(persistOk) ==
  /\ memories' = <<>>
  /\ searchCache' = <<>>
  /\ storage' = Persisted(storage, <<>>, persistOk)
  /\ last' = Report("clearAllMemories", "DONE", Len(memories), Undefined)
  /\ UNCHANGED <<initialized, envVars, backendVars, calls>>

\* A variant of deleteMemory that a failing write undoes
deleteMemoryUnlessWriteFails(id, persistOk) ==
  LET IsOther(m) == m.id # id
      kept == IF persistOk THEN SelectSeq(memories, IsOther) ELSE memories
  IN /\ memories' = kept
     /\ searchCache' = <<>>
     /\ storage' = Persisted(storage, kept, persistOk)
     /\ last' = Report("deleteMemory", IF persistOk THEN "DONE" ELSE "THROWN",
                       Len(memories), Undefined)
     /\ UNCHANGED <<initialized, envVars, backendVars, calls>>

\* A variant of deleteMemory that awaits init first
deleteMemoryAfterInit(id, persistOk) ==
  LET IsOther(m) == m.id # id
      kept == SelectSeq(init(TRUE, TRUE).memories, IsOther)
  IN /\ memories' = kept
     /\ initialized' = TRUE
     /\ searchCache' = <<>>
     /\ storage' = Persisted(storage, kept, persistOk)
     /\ last' = Report("deleteMemory", "DONE", Len(memories), Undefined)
     /\ UNCHANGED <<envVars, backendVars, calls>>

\* deleteMemory(id): the records of another id are kept
deleteMemory(id, persistOk) ==
  LET IsOther(m) == m.id # id
      kept == SelectSeq(memories, IsOther)
  IN /\ memories' = kept
     /\ searchCache' = <<>>
     /\ storage' = Persisted(storage, kept, persistOk)
     /\ last' = Report("deleteMemory", "DONE", Len(memories), Undefined)
     /\ UNCHANGED <<initialized, envVars, backendVars, calls>>

\* findIndex and find: the index of the first record of the id, or 0
FirstOfId(mems, id) ==
  IF \E i \in DOMAIN mems : mems[i].id = id
    THEN CHOOSE i \in DOMAIN mems :
           mems[i].id = id /\ \A j \in 1..(i - 1) : mems[j].id # id
    ELSE 0

\* Array.prototype.splice(index, 1)
Spliced(mems, i) == SubSeq(mems, 1, i - 1) \o SubSeq(mems, i + 1, Len(mems))

\* deleteMemoryById(id): the first record of the id is removed
deleteMemoryById(id, persistOk) ==
  LET i == FirstOfId(memories, id)
  IN /\ IF i # 0
          THEN /\ memories' = Spliced(memories, i)
               /\ searchCache' = <<>>
               /\ storage' = Persisted(storage, memories', persistOk)
               /\ last' = Report("deleteMemoryById", "DONE", Len(memories), Value(TRUE))
          ELSE /\ persistOk
               /\ last' = Report("deleteMemoryById", "NOT_FOUND", Len(memories), Value(FALSE))
               /\ UNCHANGED <<memories, searchCache, storage>>
     /\ UNCHANGED <<initialized, envVars, backendVars, calls>>

\* updateMemory(id, updates): Object.assign on the first record of the id
updateMemory(id, updates, persistOk) ==
  LET i == FirstOfId(memories, id)
  IN /\ IF i # 0
          THEN LET memory == Spread(Spread(memories[i], updates), [lastUpdated |-> now])
               IN /\ memories' = [memories EXCEPT ![i] = memory]
                  /\ searchCache' = <<>>
                  /\ storage' = Persisted(storage, memories', persistOk)
                  /\ last' = Report("updateMemory", "DONE", Len(memories), Value(memory))
          ELSE /\ persistOk
               /\ last' = Report("updateMemory", "NOT_FOUND", Len(memories), Null)
               /\ UNCHANGED <<memories, searchCache, storage>>
     /\ UNCHANGED <<initialized, envVars, backendVars, calls>>

\* The argument jsonData of importMemories: a text that JSON.parse turns
\* into an array of records or into another value, or that it rejects
JsonArray(items) == [json |-> "array", items |-> items]

JsonInvalid == [json |-> "invalid"]

\* A variant of importMemories whose merge mode takes every record
importMemoriesWithoutFilter(jsonData, merge, persistOk) ==
  /\ IF jsonData.json = "array" /\ ~(merge /\ (Null \in Range(memories) \cup Range(jsonData.items)))
       THEN LET importedMemories == jsonData.items
                HasId(m) == "id" \in DOMAIN m
                existingIds == {memories[i].id :
                                  i \in {j \in DOMAIN memories : HasId(memories[j])}}
                IsNew(m) == IF HasId(m) THEN m.id \notin existingIds
                            ELSE \A i \in DOMAIN memories : HasId(memories[i])
                newMemories == importedMemories
                result == IF merge THEN newMemories \o memories ELSE importedMemories
            IN /\ memories' = result
               /\ searchCache' = <<>>
               /\ storage' = Persisted(storage, result, persistOk)
               /\ last' = Report("importMemories", "DONE", Len(memories),
                                 Value([imported |-> Len(importedMemories),
                                        total |-> Len(result)]))
       ELSE /\ persistOk
            /\ last' = Report("importMemories", "THROWN", Len(memories), Undefined)
            /\ UNCHANGED <<memories, searchCache, storage>>
  /\ UNCHANGED <<initialized, envVars, backendVars, calls>>

\* importMemories(jsonData, merge): a text that is no JSON array makes it
\* throw before it changes anything, and so does, in merge mode, a null in
\* the collection (m => m.id in the map) or in the array (in the filter).
\* In merge mode the elements whose id no element of the collection has
\* are put in front (the id of an element that has none is undefined, for
\* a number as for an object), in replace mode the array becomes the
\* collection
importMemories(jsonData, merge, persistOk) ==
  /\ IF jsonData.json = "array" /\ ~(merge /\ (Null \in Range(memories) \cup Range(jsonData.items)))
       THEN LET importedMemories == jsonData.items
                HasId(m) == "id" \in DOMAIN m
                existingIds == {memories[i].id :
                                  i \in {j \in DOMAIN memories : HasId(memories[j])}}
                IsNew(m) == IF HasId(m) THEN m.id \notin existingIds
                            ELSE \A i \in DOMAIN memories : HasId(memories[i])
                newMemories == SelectSeq(importedMemories, IsNew)
                result == IF merge THEN newMemories \o memories ELSE importedMemories
            IN /\ memories' = result
               /\ searchCache' = <<>>
               /\ storage' = Persisted(storage, result, persistOk)
               /\ last' = Report("importMemories", "DONE", Len(memories),
                                 Value([imported |-> Len(importedMemories),
                                        total |-> Len(result)]))
       ELSE /\ persistOk
            /\ last' = Report("importMemories", "THROWN", Len(memories), Undefined)
            /\ UNCHANGED <<memories, searchCache, storage>>
  /\ UNCHANGED <<initialized, envVars, backendVars, calls>>

\* content.toLowerCase().replace(/\s+/g, ' ').trim()
RECURSIVE CollapseWhitespace(_)
CollapseWhitespace(s) ==
  IF s = <<>> THEN <<>>
  ELSE IF Head(s) \in Whitespace
    THEN <<" ">> \o CollapseWhitespace(DropWhile(s, Whitespace))
    ELSE <<Head(s)>> \o CollapseWhitespace(Tail(s))

\* createMemorySignature: the source, a colon, the first 100 characters of
\* the normalized content
createMemorySignature(memory) ==
  memory.source \o <<":">>
    \o Substring0(Trim(CollapseWhitespace(ToLowerCase(memory.content))), 100)

\* A variant of FirstOfSignature that keeps the last record of a signature
LastOfSignature(mems) ==
  LET IsLast(i) ==
        \A j \in (i + 1)..Len(mems) :
          createMemorySignature(mems[j]) # createMemorySignature(mems[i])
      RECURSIVE Keep(_)
      Keep(i) == IF i > Len(mems) THEN <<>>
                 ELSE (IF IsLast(i) THEN <<mems[i]>> ELSE <<>>) \o Keep(i + 1)
  IN Keep(1)

\* The filter of deduplicateMemories: the records whose signature no
\* earlier record has
FirstOfSignature(mems) ==
  LET IsFirst(i) ==
        \A j \in 1..(i - 1) :
          createMemorySignature(mems[j]) # createMemorySignature(mems[i])
      RECURSIVE Keep(_)
      Keep(i) == IF i > Len(mems) THEN <<>>
                 ELSE (IF IsFirst(i) THEN <<mems[i]>> ELSE <<>>) \o Keep(i + 1)
  IN Keep(1)

\* deduplicateMemories: the cache is cleared and the collection persisted
\* only when a record was removed; it returns the number of removed records
deduplicateMemories(persistOk) ==
  LET kept == FirstOfSignature(memories)
      removed == Len(memories) - Len(kept)
  IN /\ memories' = kept
     /\ IF removed > 0
          THEN /\ searchCache' = <<>>
               /\ storage' = Persisted(storage, kept, persistOk)
          ELSE /\ persistOk
               /\ UNCHANGED <<searchCache, storage>>
     /\ last' = Report("deduplicateMemories", "DONE", Len(memories), Value(removed))
     /\ UNCHANGED <<initialized, envVars, backendVars, calls>>

\* A page load: the content script constructs a new engine; the stored
\* data stays
Reload ==
  /\ memories' = <<>>
  /\ initialized' = FALSE
  /\ searchCache' = <<>>
  /\ last' = NoCall
  /\ UNCHANGED <<storage, envVars, backendVars, calls>>

(***************************************************************************)
(* BackendIntegration: the health probes                                   *)
(***************************************************************************)
\* checkConnection with the comparison of the retry counter off by one
checkConnectionOneMoreRetry(ok) ==
  /\ backendPresent
  /\ probes.pending > 0
  /\ IF ok
       THEN /\ isConnected' = TRUE
            /\ connectionRetries' = 0
            /\ probes' = [probes EXCEPT !.pending = @ - 1]
            /\ UNCHANGED fallbackMode
       ELSE /\ isConnected' = FALSE
            /\ IF connectionRetries <= maxRetries
                 THEN /\ connectionRetries' = connectionRetries + 1
                      /\ probes' = [probes EXCEPT !.pending = @ - 1,
                                                  !.timers = @ + 1,
                                                  !.delay = retryDelay]
                      /\ UNCHANGED fallbackMode
                 ELSE /\ fallbackMode' = TRUE
                      /\ probes' = [probes EXCEPT !.pending = @ - 1]
                      /\ UNCHANGED connectionRetries
  /\ UNCHANGED <<envVars, engineVars, storage, backendPresent, calls, last>>

\* The fetch of /health issued by a call of checkConnection() completes:
\* ok when the response is 2xx, ~ok when the fetch rejects or the status
\* is not ok
checkConnection(ok) ==
  /\ backendPresent
  /\ probes.pending > 0
  /\ IF ok
       THEN /\ isConnected' = TRUE
            /\ connectionRetries' = 0
            /\ probes' = [probes EXCEPT !.pending = @ - 1]
            /\ UNCHANGED fallbackMode
       ELSE /\ isConnected' = FALSE
            /\ IF connectionRetries < maxRetries
                 THEN /\ connectionRetries' = connectionRetries + 1
                      /\ probes' = [probes EXCEPT !.pending = @ - 1,
                                                  !.timers = @ + 1,
                                                  !.delay = retryDelay]
                      /\ UNCHANGED fallbackMode
                 ELSE /\ fallbackMode' = TRUE
                      /\ probes' = [probes EXCEPT !.pending = @ - 1]
                      /\ UNCHANGED connectionRetries
  /\ UNCHANGED <<envVars, engineVars, storage, backendPresent, calls, last>>

\* A timer set by checkConnection fires: its callback calls
\* checkConnection(), which issues the next fetch of /health
retryTimer ==
  /\ probes.timers > 0
  /\ probes' = [probes EXCEPT !.timers = @ - 1,
                              !.pending = @ + 1,
                              !.issued = @ + 1]
  /\ UNCHANGED <<envVars, engineVars, storage, backendPresent, isConnected,
                 fallbackMode, connectionRetries, calls, last>>

(***************************************************************************)
(* Spec: a freshly installed engine, no backend object, a storage that     *)
(* does not fail; one caller that saves and awaits every call              *)
(***************************************************************************)
\* A call of saveMemory(c). What a save does with a content does not depend
\* on the ids of the records, and Math.random() is held at one value here;
\* SpecStore draws it from RandomValues
Save(c) ==
  \E m \in MetadataInputs, reply \in BackendCategories, o1, o2, o3 \in Outcomes :
    saveMemory(c, m, reply, o1, o2, o3, TRUE, TRUE, {TRUE}, {0})

Spec ==
  /\ Constructed(Hrefs, {NothingStored}, {BackendAbsent})
  /\ [][\/ \E t \in Instants : Tick(t)
        \/ \E h \in Hrefs : Navigate(h)
        \/ \E c \in Contents : Save(c)]_vars

\* Jaccard similarity of the word sets of two texts above 0.85, written out
\* from the definition: |intersection| / |union| > 0.85
JaccardAbove85(text1, text2) ==
  LET words1 == WordSet(text1)
      words2 == WordSet(text2)
  IN 100 * Cardinality(words1 \cap words2) > 85 * Cardinality(words1 \cup words2)

\* The collection holds a record whose content is trim(c) or similar to it
HoldsDuplicateOf(c) ==
  \E i \in DOMAIN memories :
    \/ memories[i].content = Trim(c)
    \/ JaccardAbove85(memories[i].content, Trim(c))

\* C1: when the collection holds a record whose content is trim(c) or whose
\* similarity to trim(c) is above 0.85, saveMemory(c) returns null and
\* leaves the collection as it is: no record created, merged or modified.
\* Saving the same content twice in a row is the case where the first call
\* created the record
C1_DuplicateSaveIsNoOp ==
  [][\A c \in Contents :
       (HoldsDuplicateOf(c) /\ Save(c))
         => (last'.ret = Null /\ memories' = memories)]_vars

\* A save has returned null on a collection that holds records
C1_Witness ==
  /\ last.op = "saveMemory"
  /\ last.ret = Null
  /\ memories # <<>>

\* C2: from the empty collection, after any sequence of saveMemory calls
\* the collection holds at most maxMemories records
C2_SavesKeepCap == Len(memories) <= maxMemories

\* A save has created a record in a collection that held maxMemories records
C2_Witness ==
  /\ last.op = "saveMemory"
  /\ last.outcome = "CREATED"
  /\ last.before = maxMemories
  /\ Len(memories) = maxMemories

\* The record i is of the conversation of this page and this 30-minute
\* window and was saved or merged less than 30 minutes ago
InOpenConversation(i) ==
  /\ memories[i].url = href
  /\ memories[i].conversationId = <<href, now \div 30>>
  /\ now - memories[i].timestamp < 30

\* C3: when a content b that is no duplicate is saved less than 30 minutes
\* after the record i of the same conversationId and url, the collection
\* does not grow, the content of record i becomes its former content, two
\* newlines, trim(b), and the other records stay as they are
C3_MergeWithinWindow ==
  [][\A b \in Contents : \A i \in DOMAIN memories :
       (~HoldsDuplicateOf(b) /\ InOpenConversation(i) /\ Save(b))
         => /\ Len(memories') = Len(memories)
            /\ memories'[i].content = memories[i].content \o <<"\n", "\n">> \o Trim(b)
            /\ \A j \in DOMAIN memories : j # i => memories'[j] = memories[j]]_vars

\* ContentF has been merged into the record of ContentA
C3_Witness ==
  /\ last.op = "saveMemory"
  /\ last.outcome = "MERGED"
  /\ Len(memories) = last.before
  /\ \E i \in DOMAIN memories :
       memories[i].content = Trim(ContentA) \o <<"\n", "\n">> \o Trim(ContentF)

\* C4: when a content b that is no duplicate is saved at a url all of whose
\* records were saved 31 minutes ago or earlier, a new record holding
\* trim(b) alone is put at the head, and the records that were there are
\* not modified: they follow in their order, all of them when the
\* collection held less than maxMemories records
C4_NoMergeAfterWindow ==
  [][\A b \in Contents :
       (/\ ~HoldsDuplicateOf(b)
        /\ \E i \in DOMAIN memories : memories[i].url = href
        /\ \A i \in DOMAIN memories :
             memories[i].url = href => now - memories[i].timestamp >= 31
        /\ Save(b))
         => /\ Len(memories') = Min(Len(memories) + 1, maxMemories)
            /\ memories'[1].content = Trim(b)
            /\ memories'[1].timestamp = now
            /\ \A k \in DOMAIN memories :
                 k + 1 <= maxMemories => memories'[k + 1] = memories[k]]_vars

\* Two records of the same url saved 31 minutes apart, the older one never
\* merged into
C4_Witness ==
  /\ last.op = "saveMemory"
  /\ last.outcome = "CREATED"
  /\ Len(memories) = 2
  /\ memories[1].url = memories[2].url
  /\ memories[1].timestamp - memories[2].timestamp >= 31
  /\ "lastUpdated" \notin DOMAIN memories[2]

\* C7: from the empty collection, after any sequence of saveMemory calls no
\* two records have the same content or a similarity above 0.85
C7_NoTwoDuplicates ==
  \A i, j \in DOMAIN memories :
    i # j => /\ memories[i].content # memories[j].content
             /\ ~JaccardAbove85(memories[i].content, memories[j].content)

\* C9: no record of the collection has a content that is empty once trimmed
C9_NoBlankRecord ==
  \A i \in DOMAIN memories : Trim(memories[i].content) # <<>>

(***************************************************************************)
(* SpecAnalyzers: the engine with each of the states of the backend        *)
(* object, the requests of a backend in use answered or failing            *)
(***************************************************************************)
AnalyzedContents == {ContentA, ContentE, ContentF}

SpecAnalyzers ==
  /\ Constructed(Hrefs, {NothingStored},
                 {BackendAbsent, <<TRUE, TRUE, FALSE>>, <<TRUE, FALSE, FALSE>>,
                  <<TRUE, FALSE, TRUE>>})
  /\ [][\/ \E t \in Instants : Tick(t)
        \/ \E c \in AnalyzedContents : Save(c)]_vars

\* C10: every record of the collection has a category that is one of the
\* eight strings of the enumeration, whatever the state of the backend
C10_CategoryInEnum ==
  \A i \in DOMAIN memories :
    memories[i].category \in {JsString(c) : c \in CategoryEnum}

(***************************************************************************)
(* SpecStore: one caller that uses every operation of the engine on the    *)
(* collection and awaits every call; page loads construct a new engine     *)
(***************************************************************************)
StoreContents == {ContentA, ContentF}

QueryApi == <<"a", "p", "i">>

QueryShort == <<"a", "p">>

StoreInstants == {StartNow + 31}

\* The records of an imported array: one of an earlier session, and one
\* with its id, its content and its source that was saved a minute later
ExportedC == SavedEarlier(ContentC, StartNow - 35, HrefChat)

ExportedTwin == [ExportedC EXCEPT !.timestamp = StartNow - 34]

\* The ids that callers pass: those of the records, and one of no record
Ids == {memories[i].id : i \in DOMAIN memories} \cup {0}

SpecStore ==
  /\ Constructed({HrefChat}, {NothingStored}, {BackendAbsent})
  /\ [][\/ \E t \in StoreInstants : Tick(t)
        \/ \E c \in StoreContents, m \in MetadataInputs, reply \in BackendCategories,
              o1, o2, o3 \in Outcomes :
             saveMemory(c, m, reply, o1, o2, o3, TRUE, TRUE, {TRUE}, RandomValues)
        \/ \E q \in {QueryApi, QueryShort}, limit \in {5}, page \in {0} :
             getRelevantMemories(q, limit, page, TRUE, TRUE)
        \/ clearAllMemories(TRUE)
        \/ \E id \in Ids : deleteMemory(id, TRUE)
        \/ \E id \in Ids : deleteMemoryById(id, TRUE)
        \/ \E id \in Ids,
              updates \in {[summary |-> <<"n", "e", "w">>], [id |-> ExportedC.id]} :
             updateMemory(id, updates, TRUE)
        \/ \E jsonData \in {JsonArray(<<ExportedC, ExportedTwin>>),
                             [json |-> "object"], JsonInvalid},
              merge \in BOOLEAN :
             importMemories(jsonData, merge, TRUE)
        \/ deduplicateMemories(TRUE)
        \/ Reload]_vars

\* C5: a cache entry that getRelevantMemories would still return holds the
\* results that it would compute from the collection as it is now
C5_CacheCoherent ==
  \A q \in {QueryApi, QueryShort}, limit \in {5}, page \in {0} :
    IsCached(CacheKey(q, limit, page))
      => searchCache[CacheKey(q, limit, page)].results
           = RankedResults(q, limit, page, memories)

\* C6: no two records of the collection have the same id
C6_IdsUnique ==
  \A i, j \in DOMAIN memories : i # j => memories[i].id # memories[j].id

\* C8: in every state of the engine the collection holds at most
\* maxMemories records
C8_EveryStateKeepsCap == Cardinality(DOMAIN memories) <= maxMemories

(***************************************************************************)
(* SpecProbes: a backend object whose health probes all fail and whose     *)
(* reconnect() is never called, next to a caller that saves. A fetch that  *)
(* fails does complete and a timer that was set does fire                  *)
(***************************************************************************)
SpecProbes ==
  /\ Constructed(Hrefs, {NothingStored}, {<<TRUE, FALSE, FALSE>>})
  /\ [][\/ \E t \in Instants : Tick(t)
        \/ \E c \in AnalyzedContents : Save(c)
        \/ checkConnection(FALSE)
        \/ retryTimer]_vars
  /\ WF_vars(checkConnection(FALSE))
  /\ WF_vars(retryTimer)

\* C11: when every probe fails and reconnect() is not called, at most
\* 1 + maxRetries probes are issued, every retry is scheduled with
\* retryDelay, fallbackMode is eventually set, and once it is set it stays
\* set and no further probe is issued or scheduled
C11_BoundedProbesThenFallback ==
  /\ [](probes.issued <= 1 + maxRetries /\ probes.delay = retryDelay)
  /\ <>fallbackMode
  /\ [][fallbackMode => fallbackMode' /\ probes' = probes]_vars
  /\ [](fallbackMode => /\ probes.pending = 0 /\ probes.timers = 0
                        /\ probes.issued = 1 + maxRetries)

C11_Witness ==
  /\ fallbackMode
  /\ probes.issued = 1 + maxRetries
  /\ connectionRetries = maxRetries
  /\ last.op = "saveMemory"

(***************************************************************************)
(* SpecCalls: two callers that each call saveMemory once without awaiting  *)
(* the other, on one page, with no backend object or with a backend that   *)
(* is connected. A storage call that was started completes and a call     *)
(* that can resume does; a request may stay unanswered                     *)
(***************************************************************************)
SpecCalls ==
  /\ Constructed({HrefChat}, {NothingStored}, {BackendAbsent, <<TRUE, TRUE, FALSE>>})
  /\ [][\/ /\ \A j \in Callers : calls[j].pc # "ready"
           /\ \E t \in Instants : Tick(t)
        \/ \E k \in Callers, c \in {ContentA, ContentF}, m \in MetadataInputs :
             saveMemoryCalled(k, c, m)
        \/ \E k \in Callers, loadOk \in BOOLEAN : saveMemoryLoaded(k, loadOk, TRUE)
        \/ \E k \in Callers, o \in Outcomes : saveMemoryAnswered(k, o)
        \/ \E k \in Callers : saveMemoryResumed(k)
        \/ \E k \in Callers, persistOk \in BOOLEAN : saveMemoryPersisted(k, persistOk)]_vars
  /\ WF_vars(\E k \in Callers, loadOk \in BOOLEAN : saveMemoryLoaded(k, loadOk, TRUE))
  /\ WF_vars(\E k \in Callers : saveMemoryResumed(k))
  /\ WF_vars(\E k \in Callers, persistOk \in BOOLEAN : saveMemoryPersisted(k, persistOk))

\* C12: every call of saveMemory that awaits a request of a backend
\* analyzer eventually returns, even if the request is never answered
C12_SaveReturnsWithoutAnswer ==
  \A k \in Callers : (calls[k].pc = "requesting") ~> (calls[k].pc = "returned")

\* A record holds a content if it was created with it or if the content
\* was appended to it or it to the content
HoldsContent(records, c) ==
  LET sep == <<"\n", "\n">>
  IN \E i \in DOMAIN records :
       LET rc == records[i].content
       IN \/ rc = c
          \/ /\ Len(rc) > Len(c) + 2
             /\ \/ SubSeq(rc, 1, Len(c) + 2) = c \o sep
                \/ SubSeq(rc, Len(rc) - Len(c) - 1, Len(rc)) = sep \o c

\* The call of caller k returned a record, and its content is in no record
\* of the collection and in no record of the stored collection
LostContent(k) ==
  /\ calls[k].pc = "returned"
  /\ calls[k].outcome # "DUPLICATE"
  /\ ~HoldsContent(memories, TrimContent(calls[k].content))
  /\ ~HoldsContent(IF storage.present THEN storage.data ELSE <<>>,
                   TrimContent(calls[k].content))

\* C16: saveMemory is not atomic across its await points. A content that
\* a call saved is lost only when the two calls were in flight together,
\* and (the witness) there is an interleaving in which both calls pass the
\* merge test for the same conversationId before either write has
\* completed, both writes complete, and the content of one call is in
\* neither the collection nor the stored collection
C16_LossOnlyByInterleaving ==
  \A k \in Callers :
    LostContent(k) =>
      \E j \in Callers \ {k} : j \in calls[k].during \/ k \in calls[j].during

C16_Witness ==
  \E k \in Callers : \E j \in Callers \ {k} :
    /\ calls[k].pc = "returned" /\ calls[j].pc = "returned"
    /\ calls[k].outcome # "DUPLICATE" /\ calls[j].outcome # "DUPLICATE"
    /\ calls[k].written /\ calls[j].written
    /\ j \in calls[k].racing
    /\ calls[k].returned.conversationId = calls[j].returned.conversationId
    /\ LostContent(j)

(***************************************************************************)
(* SpecImport: one caller that imports exported files and files that are   *)
(* damaged or of another kind, in both modes, and clears the collection;   *)
(* a write to the storage can fail                                         *)
(***************************************************************************)
\* What JSON.parse makes of the texts: arrays of records (of the same id
\* or not), arrays with an element that is a number, null or an object
\* without id and content, an object, a syntax error
ImportedJson ==
  LET other == SavedEarlier(ContentF, StartNow - 40, HrefChat)
  IN {JsonArray(<<ExportedC>>),
      JsonArray(<<ExportedTwin, other>>),
      JsonArray(<<other, Value(42)>>),
      JsonArray(<<Null>>),
      JsonArray(<<[summary |-> <<"x">>]>>),
      [json |-> "object"],
      JsonInvalid}

SpecImport ==
  /\ Constructed({HrefChat}, {NothingStored}, {BackendAbsent})
  /\ [][\/ \E t \in Instants : Tick(t)
        \/ \E j \in ImportedJson, merge, persistOk \in BOOLEAN :
             importMemories(j, merge, persistOk)
        \/ \E persistOk \in BOOLEAN : clearAllMemories(persistOk)]_vars

\* An element has the shape of a record
RecordShaped(m) == {"id", "content"} \subseteq DOMAIN m

\* C14: importMemories with a text that is no JSON, or no array, or an
\* array with an element that has not the shape of a record, throws and
\* leaves the collection, the search cache and the stored data unchanged,
\* in merge mode and in replace mode
C14_MalformedImportChangesNothing ==
  [][\A j \in ImportedJson, merge \in BOOLEAN, persistOk \in BOOLEAN :
       /\ importMemories(j, merge, persistOk)
       /\ \/ j.json # "array"
          \/ \E i \in DOMAIN j.items : ~RecordShaped(j.items[i])
       => /\ last'.outcome = "THROWN"
          /\ UNCHANGED <<memories, searchCache, storage>>]_vars

\* C15: on a collection of records, importMemories of an array of records
\* in merge mode keeps the collection as it was, at the end, and puts in
\* front of it exactly the records of the array whose id no record of the
\* collection had, so that no new record has the id of an old one; in
\* replace mode the collection becomes the array
C15_ImportMergesById ==
  [][\A j \in ImportedJson, merge \in BOOLEAN, persistOk \in BOOLEAN :
       /\ importMemories(j, merge, persistOk)
       /\ j.json = "array"
       /\ \A i \in DOMAIN j.items : RecordShaped(j.items[i])
       /\ \A i \in DOMAIN memories : RecordShaped(memories[i])
       => LET added == Len(memories') - Len(memories)
              fresh == {i \in DOMAIN j.items :
                          \A k \in DOMAIN memories : memories[k].id # j.items[i].id}
          IN IF merge
               THEN /\ added = Cardinality(fresh)
                    /\ SubSeq(memories', added + 1, Len(memories')) = memories
                    /\ \A n \in 1..added :
                         /\ \E i \in fresh : memories'[n] = j.items[i]
                         /\ \A k \in DOMAIN memories : memories'[n].id # memories[k].id
                    /\ \A i \in fresh : \E n \in 1..added : memories'[n] = j.items[i]
               ELSE memories' = j.items]_vars

\* A merge import of two records, one of the id of the one record of the
\* collection, has added the other
C15_Witness ==
  /\ last.op = "importMemories"
  /\ last.outcome = "DONE"
  /\ last.before = 1
  /\ last.ret.value = [imported |-> 2, total |-> 2]
  /\ Len(memories) = 2
  /\ memories[2] = ExportedC
  /\ memories[1].id # memories[2].id

(***************************************************************************)
(* SpecLibrary: one caller that saves, imports exported records in merge   *)
(* mode, searches page by page, deletes and deduplicates, and awaits every *)
(* call                                                                    *)
(***************************************************************************)
SpecLibrary ==
  /\ Constructed({HrefChat}, {NothingStored}, {BackendAbsent})
  /\ [][\/ \E t \in StoreInstants : Tick(t)
        \/ \E c \in StoreContents, m \in MetadataInputs, reply \in BackendCategories,
              o \in Outcomes :
             saveMemory(c, m, reply, o, o, o, TRUE, TRUE, {TRUE}, {0})
        \/ LET older == [SavedEarlier(ContentA, StartNow - 40, HrefChat) EXCEPT
                           !.summary = <<"n", "o", "t", "e">>]
               spaced == [ExportedTwin EXCEPT
                            !.id = ExportedC.id + 1,
                            !.content = <<"F", "i", "x", " ", " ", "a", "p", "i", " ",
                                          "c", "\t", "d", " ", "e", " ">>]
           IN \/ importMemories(JsonArray(<<ExportedC, spaced>>), TRUE, TRUE)
              \/ importMemories(JsonArray(<<older, ExportedC>>), TRUE, TRUE)
        \/ getRelevantMemories(QueryShort, 1, 0, TRUE, TRUE)
        \/ \E a \in {<<1, 1>>, <<2, 0>>} : getRelevantMemories(QueryApi, a[1], a[2], TRUE, TRUE)
        \/ \E id \in Ids : deleteMemory(id, TRUE)
        \/ deduplicateMemories(TRUE)]_vars

(***************************************************************************)
(* SpecFaulty: one caller that saves, imports, deletes, deduplicates and   *)
(* clears, and awaits every call, on a storage whose writes can fail       *)
(***************************************************************************)
SpecFaulty ==
  /\ Constructed({HrefChat}, {NothingStored}, {BackendAbsent})
  /\ [][\/ \E t \in StoreInstants : Tick(t)
        \/ \E c \in StoreContents, persistOk \in BOOLEAN :
             saveMemory(c, [type |-> "conversation"], "explanation", "ok", "ok", "ok",
                        TRUE, TRUE, {persistOk}, {0})
        \/ \E merge, persistOk \in BOOLEAN :
             importMemories(JsonArray(<<ExportedC, ExportedTwin>>), merge, persistOk)
        \/ \E id \in Ids, persistOk \in BOOLEAN : deleteMemory(id, persistOk)
        \/ \E persistOk \in BOOLEAN : deduplicateMemories(persistOk)
        \/ \E persistOk \in BOOLEAN : clearAllMemories(persistOk)]_vars

\* C13: when the write of persist fails, the operation does not throw, the
\* stored data stay as they were, and the collection holds the mutation:
\* saveMemory returns the record it created (first in the collection that
\* init left, which is cut to maxMemories) or merged (with the content
\* appended),
\* deleteMemory has removed every record of the id, importMemories has put
\* the new records in front or replaced the collection, and
\* clearAllMemories has emptied it
C13_FailedWriteKeepsMutation ==
  [][/\ \A c \in StoreContents :
          saveMemory(c, [type |-> "conversation"], "explanation", "ok", "ok", "ok",
                     TRUE, TRUE, {FALSE}, {0})
          => LET loaded == init(TRUE, TRUE).memories
             IN /\ storage' = storage
                /\ last'.outcome \in {"DUPLICATE", "MERGED", "CREATED"}
                /\ last'.outcome = "DUPLICATE" =>
                     last'.ret = Null /\ memories' = loaded
                /\ last'.outcome # "DUPLICATE" =>
                     /\ last'.ret.kind = "value"
                     /\ last'.ret.value \in Range(memories')
                     /\ HoldsContent(<<last'.ret.value>>, TrimContent(c))
                /\ last'.outcome = "CREATED" =>
                     /\ memories'[1] = last'.ret.value
                     /\ Len(memories') = Min(Len(loaded) + 1, maxMemories)
                     /\ SubSeq(memories', 2, Len(memories'))
                          = SubSeq(loaded, 1, Len(memories') - 1)
                /\ last'.outcome = "MERGED" =>
                     /\ Len(memories') = Len(loaded)
                     /\ \E i \in DOMAIN loaded :
                          /\ memories'[i] = last'.ret.value
                          /\ memories'[i].id = loaded[i].id
                          /\ memories'[i].content # loaded[i].content
                          /\ \A k \in DOMAIN loaded \ {i} : memories'[k] = loaded[k]
     /\ \A id \in Ids :
          deleteMemory(id, FALSE)
          => /\ storage' = storage
             /\ last'.outcome = "DONE"
             /\ \A m \in Range(memories') : m.id # id
             /\ Len(memories') =
                  Cardinality({i \in DOMAIN memories : memories[i].id # id})
     /\ \A merge \in BOOLEAN :
          importMemories(JsonArray(<<ExportedC, ExportedTwin>>), merge, FALSE)
          => /\ storage' = storage
             /\ last'.outcome = "DONE"
             /\ last'.ret.value.total = Len(memories')
             /\ ~merge => memories' = <<ExportedC, ExportedTwin>>
             /\ merge => /\ Len(memories') >= Len(memories)
                         /\ SubSeq(memories', Len(memories') - Len(memories) + 1,
                                    Len(memories')) = memories
     /\ clearAllMemories(FALSE)
          => storage' = storage /\ last'.outcome = "DONE" /\ memories' = <<>>
    ]_vars

\* A save has merged a content into a record and returned it while the
\* write failed: the stored data, written by an earlier save, do not hold
\* the record
C13_Witness ==
  /\ last.op = "saveMemory"
  /\ last.outcome = "MERGED"
  /\ last.ret.value \in Range(memories)
  /\ storage.present
  /\ last.ret.value \notin Range(storage.data)
  /\ Len(storage.data) = Len(memories)

\* The time at which a record was created: saveMemory makes the id of
\* Date.now() and Math.random(), and neither a merge nor an import
\* changes it
CreatedAt(memory) == memory.id \div RandomRange

\* C17: getRelevantMemories with a query of less than 3 characters and
\* limit 1 returns min(1, n) records, and no record of the collection was
\* created later than a returned one
C17_ShortQueryMostRecent ==
  [][(/\ last'.op = "getRelevantMemories"
      /\ last'.outcome = "RECENT"
      /\ getRelevantMemories(QueryShort, 1, 0, TRUE, TRUE))
       => LET returned == last'.ret.value
          IN /\ Len(returned) = Min(1, Len(memories'))
             /\ \A r \in Range(returned), m \in Range(memories') :
                  CreatedAt(r) >= CreatedAt(m)]_vars

\* C18: the results that getRelevantMemories computes for a query of 3
\* characters or more are the records of a score above 0.05, the one with
\* k relevant records ahead of it (of a greater score, or of an equal
\* score and earlier in the collection) at place k, cut to the places
\* page * limit to (page + 1) * limit - 1: never more than limit records,
\* in non-increasing order of score
C18_RankedPage ==
  [][\A a \in {<<1, 1>>, <<2, 0>>} :
       (/\ last'.op = "getRelevantMemories"
        /\ last'.outcome = "COMPUTED"
        /\ getRelevantMemories(QueryApi, a[1], a[2], TRUE, TRUE))
       => \A scored \in {calculateTFIDFScores(QueryApi, memories')} :
          LET limit == a[1]
              page == a[2]
              returned == last'.ret.value
              relevant == {i \in DOMAIN scored : 20 * scored[i].score[1]
                                                   > 1000000 * scored[i].score[2]}
              Above(j, i) == scored[j].score[1] * scored[i].score[2]
                               > scored[i].score[1] * scored[j].score[2]
              Ahead(i) == {j \in relevant :
                             Above(j, i) \/ (~Above(i, j) /\ j < i)}
          IN /\ Len(returned) =
                  Max(0, Min(limit, Cardinality(relevant) - page * limit))
             /\ \A n \in DOMAIN returned :
                  \E i \in relevant :
                    /\ Cardinality(Ahead(i)) = page * limit + n - 1
                    /\ returned[n] = scored[i]
             /\ \A n \in DOMAIN returned, k \in DOMAIN returned :
                  n < k => returned[n].score[1] * returned[k].score[2]
                             >= returned[k].score[1] * returned[n].score[2]]_vars

\* A search has returned two records in the order of their scores, which
\* is not their order in the collection
C18_Witness ==
  /\ last.op = "getRelevantMemories"
  /\ last.outcome = "COMPUTED"
  /\ Len(last.ret.value) = 2
  /\ ScoreGreater(last.ret.value[1].score, last.ret.value[2].score)
  /\ \E i \in DOMAIN memories, j \in DOMAIN memories :
       /\ i < j
       /\ memories[j].id = last.ret.value[1].id
       /\ memories[i].id = last.ret.value[2].id

\* C19: when saveMemory creates a record and the collection exceeds
\* maxMemories, no record that is cut off was created later than a record
\* that is kept
C19_EvictsEarliestCreated ==
  [][\A c \in StoreContents :
       (/\ last'.op = "saveMemory"
        /\ last'.outcome = "CREATED"
        /\ last'.before + 1 > maxMemories
        /\ saveMemory(c, [type |-> "conversation"], "explanation", "ok", "ok", "ok",
                      TRUE, TRUE, {TRUE}, {0}))
       => LET all == <<last'.ret.value>> \o init(TRUE, TRUE).memories
          IN \A e \in (maxMemories + 1)..Len(all), k \in 1..maxMemories :
               CreatedAt(all[e]) <= CreatedAt(all[k])]_vars

\* C20: deduplicateMemories keeps, in their order, the records whose
\* signature no earlier record has, and returns the number of the others;
\* afterwards no two records have the same signature, and a call that
\* follows a call of deduplicateMemories changes nothing and returns 0
C20_DeduplicateKeepsFirst ==
  [][(last'.op = "deduplicateMemories" /\ deduplicateMemories(TRUE))
       => LET first == {i \in DOMAIN memories :
                          \A j \in 1..(i - 1) :
                            createMemorySignature(memories[j])
                              # createMemorySignature(memories[i])}
          IN /\ Len(memories') = Cardinality(first)
             /\ last'.ret = Value(Len(memories) - Cardinality(first))
             /\ \A n \in DOMAIN memories' :
                  \E i \in first :
                    /\ Cardinality({j \in first : j < i}) = n - 1
                    /\ memories'[n] = memories[i]
             /\ \A n \in DOMAIN memories', k \in DOMAIN memories' :
                  n # k => createMemorySignature(memories'[n])
                             # createMemorySignature(memories'[k])
             /\ last.op = "deduplicateMemories" =>
                  memories' = memories /\ last'.ret = Value(0)]_vars

\* deduplicateMemories has removed the record whose content differs from
\* that of an earlier record in case and in white space only
C20_Witness ==
  /\ last.op = "deduplicateMemories"
  /\ last.ret = Value(1)
  /\ last.before = Len(memories) + 1
  /\ ExportedC \in Range(memories)
  /\ \A m \in Range(memories) : m.id # ExportedC.id + 1

(***************************************************************************)
(* SpecSession: page loads on a browser whose storage holds the data of an *)
(* earlier session (or none); one caller that searches and saves and       *)
(* awaits every call; the read of init and the writes can fail             *)
(***************************************************************************)
SpecSession ==
  /\ Constructed({HrefChat}, {EarlierSession, NothingStored}, {BackendAbsent})
  /\ [][\/ \E t \in Instants : Tick(t)
        \/ \E loadOk, cleanupOk \in BOOLEAN :
             getRelevantMemories(QueryShort, 5, 0, loadOk, cleanupOk)
        \/ \E c \in StoreContents, loadOk, cleanupOk, persistOk \in BOOLEAN :
             saveMemory(c, [type |-> "conversation"], "explanation", "ok", "ok", "ok",
                        loadOk, cleanupOk, {persistOk}, {0})
        \/ Reload]_vars

\* C21: when the init of a call has read the stored collection, the
\* collection in memory holds, in their order, exactly the stored records
\* of an age below 90 days, none of an age of 90 days or more; if a record
\* was dropped, the collection in memory is what init writes to the
\* storage (a write that fails leaves the stored data as it was), and
\* otherwise init writes nothing
C21_InitPurgesOldRecords ==
  [][\A cleanupOk \in BOOLEAN :
       (/\ ~initialized
        /\ last'.op = "getRelevantMemories"
        /\ getRelevantMemories(QueryShort, 5, 0, TRUE, cleanupOk))
       => LET loaded == IF storage.present THEN storage.data ELSE <<>>
              young == {i \in DOMAIN loaded : now - loaded[i].timestamp < maxAge}
          IN /\ initialized'
             /\ \A n \in DOMAIN memories' : now - memories'[n].timestamp < maxAge
             /\ Len(memories') = Cardinality(young)
             /\ \A n \in DOMAIN memories' :
                  \E i \in young :
                    /\ Cardinality({j \in young : j < i}) = n - 1
                    /\ memories'[n] = loaded[i]
             /\ storage' = IF Len(memories') < Len(loaded) /\ cleanupOk
                             THEN Stored(memories')
                             ELSE storage]_vars

\* The init of a search has dropped the record of exactly 90 days from the
\* two stored records and has written the collection of the one it kept
C21_Witness ==
  /\ last.op = "getRelevantMemories"
  /\ initialized
  /\ Len(memories) = 1
  /\ memories[1].timestamp = StartNow - 35
  /\ storage = Stored(memories)
  /\ \A m \in Range(EarlierSession.data) :
       m \in Range(memories) <=> m.timestamp > now - maxAge

\* C27: the first saveMemory of a session whose read of the stored
\* collection fails leaves every record of less than 90 days that was in
\* the storage in the storage
C27_FailedLoadKeepsStoredRecords ==
  [][\A c \in StoreContents, persistOk \in BOOLEAN :
       (/\ ~initialized
        /\ last'.op = "saveMemory"
        /\ saveMemory(c, [type |-> "conversation"], "explanation", "ok", "ok", "ok",
                      FALSE, TRUE, {persistOk}, {0}))
       => \A r \in Range(storage.data) :
            now - r.timestamp < maxAge => r \in Range(storage'.data)]_vars

\* C28: when the read that the init of a call started completes, every
\* record that is in the collection in memory stays in it: no load
\* completes into a collection to which a call has already added
C28_LoadKeepsAddedRecords ==
  [][\A k \in Callers, loadOk \in BOOLEAN :
       saveMemoryLoaded(k, loadOk, TRUE)
       => \A m \in Range(memories) : m \in Range(memories')]_vars

(***************************************************************************)
(* The scraping path: MemoryEngine.isWorthSaving and the content script's  *)
(* extractAndSaveMemories                                                  *)
(***************************************************************************)
\* What the promise of MemoryEngine.isWorthSaving(content) resolves to when
\* there is no backend object: false for a content of less than 20
\* characters; otherwise whether the content matches one of the patterns
\* of an answer, starts like a list item or ends with a colon, holds code
\* in backquotes, an address or a technical term, or has more than 100
\* characters
isWorthSaving(content) ==
  LET text == ToLowerCase(content)
      aiPatterns ==
        {<<"h", "e", "r", "e", "'", "s">>,
         <<"h", "e", "r", "e", " ", "i", "s">>,
         <<"i", " ", "c", "a", "n", " ", "h", "e", "l", "p">>,
         <<"l", "e", "t", " ", "m", "e", " ", "e", "x", "p", "l", "a", "i", "n">>,
         <<"b", "a", "s", "e", "d", " ", "o", "n">>,
         <<"a", "c", "c", "o", "r", "d", "i", "n", "g", " ", "t", "o">>,
         <<"i", "n", " ", "s", "u", "m", "m", "a", "r", "y">>,
         <<"t", "o", " ", "a", "n", "s", "w", "e", "r", " ", "y", "o", "u", "r", " ", "q", "u", "e", "s", "t", "i", "o", "n">>}
      technicalTerms ==
        {<<"a", "p", "i">>,
         <<"f", "u", "n", "c", "t", "i", "o", "n">>,
         <<"c", "l", "a", "s", "s">>,
         <<"m", "e", "t", "h", "o", "d">>,
         <<"a", "l", "g", "o", "r", "i", "t", "h", "m">>,
         <<"d", "a", "t", "a", "b", "a", "s", "e">>,
         <<"s", "e", "r", "v", "e", "r">>,
         <<"c", "l", "i", "e", "n", "t">>,
         <<"f", "r", "a", "m", "e", "w", "o", "r", "k">>,
         <<"l", "i", "b", "r", "a", "r", "y">>}
      start == DropWhile(content, Whitespace)
      digits == TakeWhile(start, Digits)
      hasStructure ==
        \/ Len(start) >= 2 /\ start[1] \in {"-", "BULLET", "*"} /\ start[2] \in Whitespace
        \/ /\ Len(digits) >= 1
           /\ Len(start) >= Len(digits) + 2
           /\ start[Len(digits) + 1] = "."
           /\ start[Len(digits) + 2] \in Whitespace
        \/ LET body == DropWhileEnd(content, Whitespace)
           IN body # <<>> /\ body[Len(body)] = ":"
      hasCode ==
        \/ HasCodeFence(content)
        \/ \E i, j \in 1..Len(content) :
             /\ j >= i + 2
             /\ content[i] = Backquote /\ content[j] = Backquote
             /\ \A k \in (i + 1)..(j - 1) : content[k] # Backquote
      hasURLs ==
        \E scheme \in {<<"h", "t", "t", "p", ":", "/", "/">>,
                       <<"h", "t", "t", "p", "s", ":", "/", "/">>} :
          \E i \in 1..Len(content) :
            /\ i + Len(scheme) <= Len(content)
            /\ SubSeq(content, i, i + Len(scheme) - 1) = scheme
            /\ content[i + Len(scheme)] \notin Whitespace
  IN /\ Len(content) >= 20
     /\ \/ IncludesAny(text, aiPatterns)
        \/ hasStructure
        \/ hasCode
        \/ hasURLs
        \/ IncludesAny(text, technicalTerms)
        \/ Len(content) > 100

\* The contents that the content script scrapes from the page: one of 57
\* characters that matches no pattern of isWorthSaving, one of 63
\* characters that holds a technical term, and one of 15 characters
ScrapedContents ==
  {<<"w", "e", " ", "m", "e", "t", " ", "a", "t", " ", "n", "o", "o", "n", " ", "a", "n", "d", " ", "h", "a", "d", " ", "s", "o", "u", "p", " ", "a", "n", "d", " ", "b", "r", "e", "a", "d", " ", "b", "y", " ", "t", "h", "e", " ", "o", "l", "d", " ", "o", "a", "k", " ", "t", "r", "e", "e">>,
   <<"t", "h", "e", " ", "a", "p", "i", " ", "o", "f", " ", "t", "h", "e", " ", "o", "l", "d", " ", "m", "i", "l", "l", " ", "r", "e", "t", "u", "r", "n", "s", " ", "s", "o", "u", "p", " ", "a", "n", "d", " ", "b", "r", "e", "a", "d", " ", "a", "t", " ", "n", "o", "o", "n", " ", "e", "a", "c", "h", " ", "d", "a", "y">>,
   ContentA}

\* extractAndSaveMemories(content). isWorthSaving is an async function and
\* the call is not awaited: the test !isWorthSaving(content) negates a
\* promise, which is an object, and is false for every content, so that the
\* early return is never taken. A content of more than 50 characters is
\* saved as a conversation memory. extractKeyFacts is async and not awaited
\* either: the iteration over its promise throws a TypeError, which the
\* catch clause logs, so that no fact is saved
extractAndSaveMemories(content) ==
  IF Len(content) > 50
    THEN saveMemory(content,
                    [type |-> "conversation", platform |-> "chatgpt",
                     conversation_url |-> href],
                    "explanation", "ok", "ok", "ok", TRUE, TRUE, {TRUE}, {0})
    ELSE /\ last' = Report("extractAndSaveMemories", "NOTHING", Len(memories), Undefined)
         /\ UNCHANGED <<envVars, engineVars, storage, backendVars, calls>>

(***************************************************************************)
(* SpecScrape: the content script hands the contents it scrapes to         *)
(* extractAndSaveMemories, on two pages, with no backend object            *)
(***************************************************************************)
SpecScrape ==
  /\ Constructed(Hrefs, {NothingStored}, {BackendAbsent})
  /\ [][\/ \E t \in Instants : Tick(t)
        \/ \E h \in Hrefs : Navigate(h)
        \/ \E c \in ScrapedContents : extractAndSaveMemories(c)]_vars

\* C22: a call of extractAndSaveMemories for a content that isWorthSaving
\* rejects creates no record and merges into none: the collection and the
\* stored data stay as they are
C22_GateBlocksUnworthy ==
  [][\A c \in ScrapedContents :
       (extractAndSaveMemories(c) /\ ~isWorthSaving(c))
       => memories' = memories /\ storage' = storage]_vars

\* C23: deleteMemory(id) and deleteMemoryById(id) leave in the collection
\* exactly the records of another id, in their order and as they were;
\* deleteMemory clears the cache and writes the collection; so does
\* deleteMemoryById when it removed a record, and it returns true then;
\* otherwise it returns false, changes nothing and writes nothing
C23_DeleteRemovesTheId ==
  [][\A id \in Ids :
       LET IsOther(m) == m.id # id
           others == SelectSeq(memories, IsOther)
       IN /\ (last'.op = "deleteMemory" /\ deleteMemory(id, TRUE))
             => /\ memories' = others
                /\ searchCache' = <<>>
                /\ storage' = Stored(others)
          /\ (last'.op = "deleteMemoryById" /\ deleteMemoryById(id, TRUE))
             => /\ memories' = others
                /\ last'.ret = Value(Len(others) < Len(memories))
                /\ IF Len(others) < Len(memories)
                     THEN searchCache' = <<>> /\ storage' = Stored(others)
                     ELSE searchCache' = searchCache /\ storage' = storage]_vars

(***************************************************************************)
(* SpecScores: one caller that saves and searches with queries whose       *)
(* terms are in some records, in none, or are no terms at all; records     *)
(* with terms and without                                                  *)
(***************************************************************************)
\* The queries: "api", a term of some records; "zzz", a term of none;
\* "the", a stopword, which leaves no query term; "constructor"
ScoreQueries ==
  {QueryApi, <<"z", "z", "z">>, <<"t", "h", "e">>,
   <<"c", "o", "n", "s", "t", "r", "u", "c", "t", "o", "r">>}

SpecScores ==
  /\ Constructed({HrefChat}, {NothingStored}, {BackendAbsent})
  /\ [][\/ \E t \in StoreInstants : Tick(t)
        \/ \E c \in StoreContents :
             saveMemory(c, [type |-> "conversation"], "explanation", "ok", "ok", "ok",
                        TRUE, TRUE, {TRUE}, {0})
        \/ \E q \in ScoreQueries : getRelevantMemories(q, 5, 0, TRUE, TRUE)]_vars

\* C24: every score that calculateTFIDFScores computes in a search, for
\* the query and the collection of the search, is a number (the
\* denominator of the fraction is not 0) and is not negative
C24_ScoresAreNumbers ==
  [][\A q \in ScoreQueries :
       (/\ last'.op = "getRelevantMemories"
        /\ last'.outcome = "COMPUTED"
        /\ getRelevantMemories(q, 5, 0, TRUE, TRUE))
       => \A scored \in {calculateTFIDFScores(q, memories')} :
            \A d \in DOMAIN scored :
              scored[d].score[2] > 0 /\ scored[d].score[1] >= 0]_vars

\* The lower-cased words of a text, read off the text: the maximal runs of
\* characters that are no white space, and the empty word when the text is
\* empty or starts or ends with white space
JaccardWords(text) ==
  LET t == ToLowerCase(text)
      IsBlank(i) == t[i] \in Whitespace
      starts == {i \in DOMAIN t : ~IsBlank(i) /\ (i = 1 \/ IsBlank(i - 1))}
      EndOf(i) == CHOOSE j \in i..Len(t) :
                    /\ \A k \in i..j : ~IsBlank(k)
                    /\ j = Len(t) \/ IsBlank(j + 1)
  IN {SubSeq(t, i, EndOf(i)) : i \in starts}
       \cup (IF t = <<>> \/ IsBlank(1) \/ IsBlank(Len(t)) THEN {<<>>} ELSE {})

\* C25: for the content a of a record and a content b that is a record's
\* or that a caller saves, calculateSimilarity(a, b) is the number of the
\* common words of a and b divided by the number of the words of either,
\* the divisor is not 0, the value is that of calculateSimilarity(b, a),
\* and calculateSimilarity(a, a) is 1
C25_SimilaritySymmetric ==
  \A i \in DOMAIN memories :
    \A b \in {memories[j].content : j \in DOMAIN memories}
               \cup {TrimContent(c) : c \in AnalyzedContents} :
      LET a == memories[i].content
      IN /\ SimilarityNum(a, b) = Cardinality(JaccardWords(a) \cap JaccardWords(b))
         /\ SimilarityDen(a, b) = Cardinality(JaccardWords(a) \cup JaccardWords(b))
         /\ SimilarityDen(a, b) > 0
         /\ SimilarityNum(a, b) * SimilarityDen(b, a)
              = SimilarityNum(b, a) * SimilarityDen(a, b)
         /\ SimilarityAboveThreshold(a, b) <=> SimilarityAboveThreshold(b, a)
         /\ SimilarityNum(a, a) = SimilarityDen(a, a)

\* A record whose content starts with white space (its words include the
\* empty word) has one word in common with a content that a caller saves
\* and other words besides, and the empty content is a record's
C25_Witness ==
  /\ \E i \in DOMAIN memories : memories[i].content = <<>>
  /\ \E i \in DOMAIN memories, c \in AnalyzedContents :
       /\ memories[i].content # <<>>
       /\ memories[i].content[1] \in Whitespace
       /\ SimilarityNum(memories[i].content, TrimContent(c)) = 1
       /\ SimilarityDen(memories[i].content, TrimContent(c)) > 2

(***************************************************************************)
(* SpecCategories: one caller that saves contents with keywords of one     *)
(* group, of several groups and of none, with no backend object            *)
(***************************************************************************)
\* "Here's how to use the API: call fetch()."; a content with a how-to and
\* an explanation keyword; one with a recommendation and an example
\* keyword; one without keyword
CategorizedContents ==
  {<<"H", "e", "r", "e", "'", "s", " ", "h", "o", "w", " ", "t", "o", " ", "u", "s", "e", " ", "t", "h", "e", " ", "A", "P", "I", ":", " ", "c", "a", "l", "l", " ", "f", "e", "t", "c", "h", "(", ")", ".">>,
   <<"H", "o", "w", " ", "t", "o", " ", "e", "x", "p", "l", "a", "i", "n", " ", "i", "t">>,
   <<"b", "e", "s", "t", " ", "s", "a", "m", "p", "l", "e">>,
   ContentF}

SpecCategories ==
  /\ Constructed({HrefChat}, {NothingStored}, {BackendAbsent})
  /\ [][\/ \E t \in StoreInstants : Tick(t)
        \/ \E c \in CategorizedContents :
             saveMemory(c, [type |-> "conversation"], "explanation", "ok", "ok", "ok",
                        TRUE, TRUE, {TRUE}, {0})]_vars

\* C26 as stated: a record whose content contains "how to" and neither
\* "code" nor "function" nor a code fence nor a troubleshooting keyword has
\* the category "how-to"
C26_HowToWithoutCodeOrFunction ==
  \A i \in DOMAIN memories :
    LET text == ToLowerCase(memories[i].content)
    IN (/\ Includes(text, <<"h", "o", "w", " ", "t", "o">>)
        /\ ~Includes(text, <<"c", "o", "d", "e">>)
        /\ ~Includes(text, <<"f", "u", "n", "c", "t", "i", "o", "n">>)
        /\ ~HasCodeFence(memories[i].content)
        /\ ~IncludesAny(text, TroubleshootingWords))
       => memories[i].category = JsString("how-to")

\* C26 as amended: the category of a record is the first group, in the
\* order code, troubleshooting, how-to, explanation, comparison,
\* recommendation, example, of which the content holds a keyword, and
\* general when it holds none; "api" is a keyword of code, so that a
\* content with "how to" has the category "how-to" when it holds neither
\* "code" nor "function" nor "api" nor a code fence nor a troubleshooting
\* keyword
C26_FirstMatchingGroup ==
  \A i \in DOMAIN memories :
    LET content == memories[i].content
        text == ToLowerCase(content)
        order == <<"code", "troubleshooting", "how-to", "explanation",
                   "comparison", "recommendation", "example">>
        words == <<CodeWords, TroubleshootingWords, HowToWords, ExplanationWords,
                   ComparisonWords, RecommendationWords, ExampleWords>>
        Matches(n) == IncludesAny(text, words[n]) \/ (n = 1 /\ HasCodeFence(content))
    IN /\ \A n \in DOMAIN order :
            memories[i].category = JsString(order[n])
              <=> Matches(n) /\ \A k \in 1..(n - 1) : ~Matches(k)
       /\ memories[i].category = JsString("general")
            <=> \A n \in DOMAIN order : ~Matches(n)
       /\ (/\ Includes(text, <<"h", "o", "w", " ", "t", "o">>)
           /\ ~Includes(text, <<"c", "o", "d", "e">>)
           /\ ~Includes(text, <<"f", "u", "n", "c", "t", "i", "o", "n">>)
           /\ ~Includes(text, <<"a", "p", "i">>)
           /\ ~HasCodeFence(content)
           /\ ~IncludesAny(text, TroubleshootingWords))
          => memories[i].category = JsString("how-to")

\* The collection holds the record of "Here's how to use the API: call
\* fetch()." with the category "code", and a record with a how-to and an
\* explanation keyword with the category "how-to"
C26_Witness ==
  /\ \E i \in DOMAIN memories :
       /\ memories[i].content = <<"H", "e", "r", "e", "'", "s", " ", "h", "o", "w", " ", "t", "o", " ", "u", "s", "e", " ", "t", "h", "e", " ", "A", "P", "I", ":", " ", "c", "a", "l", "l", " ", "f", "e", "t", "c", "h", "(", ")", ".">>
       /\ memories[i].category = JsString("code")
  /\ \E i \in DOMAIN memories :
       /\ IncludesAny(ToLowerCase(memories[i].content), HowToWords)
       /\ IncludesAny(ToLowerCase(memories[i].content), ExplanationWords)
       /\ memories[i].category = JsString("how-to")

MergedFields == {"content", "timestamp", "lastUpdated", "category", "summary", "tags"}

\* The step is a merge into the record at position i of the collection
\* loaded: that record keeps its position and every field but the six,
\* timestamp and lastUpdated are the time of the call, category, summary
\* and tags are those of the merged content, and the other records and the
\* length stay
MergesInto(loaded, i) ==
  /\ Len(memories') = Len(loaded)
  /\ memories'[i] = last'.ret.value
  /\ \A k \in DOMAIN loaded \ {i} : memories'[k] = loaded[k]
  /\ DOMAIN memories'[i] = DOMAIN loaded[i] \cup {"lastUpdated"}
  /\ \A f \in DOMAIN loaded[i] \ MergedFields : memories'[i][f] = loaded[i][f]
  /\ memories'[i].timestamp = now
  /\ memories'[i].lastUpdated = now
  /\ memories'[i].category = JsString(categorizeContent(memories'[i].content))
  /\ memories'[i].summary = generateSummary(memories'[i].content)
  /\ memories'[i].tags = extractTags(memories'[i].content)

\* The step is a call of saveMemory that merges
IsMergeStep ==
  last' # last /\ last'.op = "saveMemory" /\ last'.outcome = "MERGED"

\* The record m of the collection was there or in the stored data before
\* the step
WasHeld(m) == m \in Range(memories) \/ m \in Range(storage.data)

clearAllClick ==
  /\ storage' = Stored(<<>>)
  /\ last' = Report("clearAllClick", "DONE", Len(memories), Undefined)
  /\ UNCHANGED <<envVars, engineVars, backendVars, calls>>

SpecWriters ==
  /\ Constructed({HrefChat},
                 {Stored(<<ExportedC, SavedEarlier(ContentA, StartNow - 40, HrefChat)>>)},
                 {BackendAbsent})
  /\ [][\/ \E t \in StoreInstants : Tick(t)
        \/ \E c \in StoreContents :
             saveMemory(c, [type |-> "conversation"], "explanation", "ok", "ok", "ok",
                        TRUE, TRUE, {TRUE}, {0})
        \/ getRelevantMemories(QueryShort, 5, 0, TRUE, TRUE)
        \/ \E id \in Ids \cup {m.id : m \in Range(storage.data)} : deleteMemory(id, TRUE)
        \/ clearAllMemories(TRUE)
        \/ \E merge \in BOOLEAN :
             importMemories(JsonArray(<<ExportedC, ExportedTwin>>), merge, TRUE)
        \/ clearAllClick
        \/ Reload]_vars

\* C31: on an engine that has not loaded its collection and holds no
\* record, deleteMemory(id) and clearAllMemories write the empty list over
\* the stored records, whatever their ids, and an import, in merge mode
\* too, writes the imported array over them, so that no stored record of
\* another id stays; the engine is still not initialized afterwards
C31_UnloadedEngineOverwrites ==
  [][(~initialized /\ memories = <<>> /\ storage.present)
       => /\ \A id \in {0} \cup {m.id : m \in Range(storage.data)} :
               deleteMemory(id, TRUE)
               => storage' = Stored(<<>>) /\ memories' = <<>> /\ ~initialized'
          /\ clearAllMemories(TRUE)
               => storage' = Stored(<<>>) /\ memories' = <<>> /\ ~initialized'
          /\ \A merge \in BOOLEAN :
               importMemories(JsonArray(<<ExportedC, ExportedTwin>>), merge, TRUE)
               => /\ storage' = Stored(<<ExportedC, ExportedTwin>>)
                  /\ memories' = <<ExportedC, ExportedTwin>>
                  /\ ~initialized'
                  /\ \A m \in Range(storage.data) :
                       m.id # ExportedC.id => m \notin Range(storage'.data)]_vars

\* The first call on an engine was deleteMemory: the stored data, which
\* held two records, are the empty list, and the engine is not initialized
C31_Witness ==
  /\ ~initialized
  /\ last.op = "deleteMemory"
  /\ last.before = 0
  /\ storage = Stored(<<>>)

\* C32: the popup's write changes the stored data and nothing of the
\* engine; an initialized engine does not read the stored data again: a
\* search leaves its collection as it is, and a save that merges or
\* creates writes the whole collection, so that the stored data hold every
\* record the engine held but those the cap evicts
C32_PersistUndoesOtherWriter ==
  [][/\ clearAllClick
          => /\ storage' = Stored(<<>>)
             /\ memories' = memories
             /\ initialized' = initialized
             /\ searchCache' = searchCache
     /\ (initialized /\ last' # last /\ last'.op = "getRelevantMemories")
          => memories' = memories /\ storage' = storage
     /\ (initialized /\ last' # last /\ last'.op = "saveMemory")
          => IF last'.outcome = "DUPLICATE"
               THEN memories' = memories /\ storage' = storage
               ELSE /\ storage' = Stored(memories')
                    /\ \A i \in DOMAIN memories :
                         \/ \E m \in Range(storage'.data) : m.id = memories[i].id
                         \/ /\ last'.outcome = "CREATED"
                            /\ i >= maxMemories]_vars

\* The popup has cleared the stored data of an engine that holds two
\* records
C32_Witness ==
  /\ initialized
  /\ last.op = "clearAllClick"
  /\ storage = Stored(<<>>)
  /\ Len(memories) = 2

(***************************************************************************)
(* SpecReconnect: a backend object whose probes complete in any order,     *)
(* with either outcome, and whose reconnect() is called at any time        *)
(***************************************************************************)
\* The number of probes after which reconnect() is no longer called
MaxProbes == 6

\* reconnect(): up to the fetch that its call of checkConnection() issues
reconnect ==
  /\ backendPresent
  /\ probes.issued < MaxProbes
  /\ connectionRetries' = 0
  /\ fallbackMode' = FALSE
  /\ probes' = [probes EXCEPT !.pending = @ + 1, !.issued = @ + 1]
  /\ UNCHANGED <<envVars, engineVars, storage, backendPresent, isConnected,
                 calls, last>>

SpecReconnect ==
  /\ Constructed({HrefChat}, {NothingStored}, {<<TRUE, FALSE, FALSE>>})
  /\ [][\/ \E ok \in BOOLEAN : checkConnection(ok)
        \/ retryTimer
        \/ reconnect]_vars

\* C33: isConnected and fallbackMode are never both true, and the retry
\* counter never exceeds maxRetries
C33_ConnectedExcludesFallback ==
  /\ ~(isConnected /\ fallbackMode)
  /\ connectionRetries <= maxRetries

\* C34: a ranked search returns the cached results, and leaves the cache
\* as it is, exactly when the cache holds an entry for its own query,
\* limit and page that was stored less than 5 minutes ago; otherwise it
\* returns the results ranked from the collection as it is now and stores
\* them under its key with the current time, leaving the other entries.
\* Entries come from nowhere else: a step keeps every entry, or stores the
\* one of its search, or empties the cache
C34_CacheHitOnlyFreshSameKey ==
  [][/\ \A a \in {<<1, 1>>, <<2, 0>>} :
          (/\ last'.op = "getRelevantMemories"
           /\ last'.outcome \in {"CACHED", "COMPUTED"}
           /\ getRelevantMemories(QueryApi, a[1], a[2], TRUE, TRUE))
          => \A key \in {QueryApi \o <<"_">> \o NumberToString(a[1])
                           \o <<"_">> \o NumberToString(a[2])} :
               IF key \in DOMAIN searchCache
                  /\ now - searchCache[key].timestamp < 5
                 THEN /\ last'.outcome = "CACHED"
                      /\ last'.ret = Value(searchCache[key].results)
                      /\ searchCache' = searchCache
                 ELSE /\ last'.outcome = "COMPUTED"
                      /\ last'.ret =
                           Value(RankedResults(QueryApi, a[1], a[2], memories'))
                      /\ DOMAIN searchCache' = DOMAIN searchCache \cup {key}
                      /\ searchCache'[key] =
                           [results |-> last'.ret.value, timestamp |-> now]
                      /\ \A k \in DOMAIN searchCache \ {key} :
                           searchCache'[k] = searchCache[k]
     /\ \/ searchCache' = searchCache
        \/ searchCache' = <<>>
        \/ /\ last'.op = "getRelevantMemories"
           /\ last'.outcome = "COMPUTED"
           /\ \E key \in DOMAIN searchCache' :
                /\ searchCache'[key].timestamp = now
                /\ \A k \in DOMAIN searchCache' \ {key} :
                     k \in DOMAIN searchCache /\ searchCache'[k] = searchCache[k]
    ]_vars

\* A search has returned the cached results of its key while the cache
\* holds the results of another limit and page of the same query, both
\* stored after the clock went on
C34_Witness ==
  /\ last.op = "getRelevantMemories"
  /\ last.outcome = "CACHED"
  /\ Cardinality(DOMAIN searchCache) = 2
  /\ \A k \in DOMAIN searchCache : searchCache[k].timestamp = StartNow + 31
  /\ \E k \in DOMAIN searchCache : searchCache[k].results # <<>>

(***************************************************************************)
(* SpecBuckets: Spec with a clock that stops one minute before and one     *)
(* minute after the end of the 30-minute bucket in which the page loaded   *)
(***************************************************************************)
SpecBuckets ==
  /\ Constructed(Hrefs, {NothingStored}, {BackendAbsent})
  /\ [][\/ \E t \in {StartNow + 29, StartNow + 31} : Tick(t)
        \/ \E h \in Hrefs : Navigate(h)
        \/ \E c \in Contents : Save(c)]_vars

\* C35: no two records of the collection have the same conversationId,
\* and a save of a content that is no duplicate, at an address and in a
\* bucket whose conversationId a record has, appends the content to that
\* record and adds no record
C35_OneRecordPerConversation ==
  /\ [](\A i, j \in DOMAIN memories :
          i # j => memories[i].conversationId # memories[j].conversationId)
  /\ [][\A b \in Contents : \A i \in DOMAIN memories :
          (/\ ~HoldsDuplicateOf(b)
           /\ memories[i].conversationId = <<href, now \div 30>>
           /\ Save(b))
          => /\ last'.outcome = "MERGED"
             /\ Len(memories') = Len(memories)
             /\ memories'[i].conversationId = memories[i].conversationId
             /\ memories'[i].content =
                  memories[i].content \o <<"\n", "\n">> \o Trim(b)]_vars

\* A content saved in the last minute of a bucket has been appended to the
\* record made in its first minute, next to a record of another address
C35_Witness ==
  /\ last.op = "saveMemory"
  /\ last.outcome = "MERGED"
  /\ now = StartNow + 29
  /\ Len(memories) = 2
  /\ \E i \in DOMAIN memories :
       /\ memories[i] = last.ret.value
       /\ memories[i].id \div RandomRange = StartNow
       /\ memories[i].conversationId = <<href, now \div 30>>

\* C36: a save of a content that is no duplicate, less than 30 minutes
\* after a record of the same url whose bucket floor(time / 30) is another
\* one than that of the save, does not merge: it puts a new record with
\* the conversationId of its own bucket in front and leaves that record as
\* it is
C36_BucketBoundarySplits ==
  [][\A b \in Contents : \A i \in DOMAIN memories :
       (/\ ~HoldsDuplicateOf(b)
        /\ memories[i].url = href
        /\ now - memories[i].timestamp < 30
        /\ memories[i].timestamp \div 30 # now \div 30
        /\ \A k \in DOMAIN memories :
             memories[k].url = href => memories[k].timestamp \div 30 # now \div 30
        /\ Save(b))
       => /\ last'.outcome = "CREATED"
          /\ memories'[1].content = Trim(b)
          /\ memories'[1].url = memories[i].url
          /\ memories'[1].conversationId = <<href, now \div 30>>
          /\ memories'[1].conversationId # memories[i].conversationId
          /\ i + 1 <= maxMemories => memories'[i + 1] = memories[i]]_vars

\* Two records of one url, made two minutes apart on the two sides of the
\* end of a bucket
C36_Witness ==
  /\ last.op = "saveMemory"
  /\ last.outcome = "CREATED"
  /\ Len(memories) = 2
  /\ memories[1].url = memories[2].url
  /\ memories[1].timestamp = StartNow + 31
  /\ memories[2].timestamp = StartNow + 29
  /\ memories[1].conversationId # memories[2].conversationId

(***************************************************************************)
(* MemoryEngine.getMemoriesPage and searchMemories                         *)
(***************************************************************************)
\* The filters of getMemoriesPage and searchMemories, applied one after
\* the other: each is applied when its field is truthy (tags: when it has
\* an element). A filters object is a function of its keys; category is a
\* string, platform a text, dateFrom and dateTo are numbers, tags is an
\* array of texts
ApplyFilters(mems, filters) ==
  LET Has(k, falsy) == k \in DOMAIN filters /\ filters[k] # falsy
      Passes(m) ==
        /\ Has("category", "") => m.category = JsString(filters.category)
        /\ Has("platform", <<>>) => Includes(m.source, filters.platform)
        /\ Has("dateFrom", 0) => m.timestamp >= filters.dateFrom
        /\ Has("dateTo", 0) => m.timestamp <= filters.dateTo
        /\ Has("tags", <<>>) => \E i \in DOMAIN filters.tags :
                                  filters.tags[i] \in Range(m.tags)
  IN SelectSeq(mems, Passes)

\* Array.prototype.sort((a, b) => b.timestamp - a.timestamp): stable,
\* descending, in place
RECURSIVE SortByTimestamp(_)
SortByTimestamp(items) ==
  IF items = <<>> THEN <<>>
  ELSE LET sorted == SortByTimestamp(SubSeq(items, 1, Len(items) - 1))
           x == items[Len(items)]
           ahead == {k \in DOMAIN sorted : sorted[k].timestamp >= x.timestamp}
           n == Cardinality(ahead)
       IN SubSeq(sorted, 1, n) \o <<x>> \o SubSeq(sorted, n + 1, Len(sorted))

\* The object that getMemoriesPage returns
PageOf(mems, page, filters) ==
  LET filtered == ApplyFilters(mems, filters)
  IN [memories |-> Slice(filtered, page * pageSize, page * pageSize + pageSize),
      total |-> Len(filtered),
      page |-> page,
      totalPages |-> (Len(filtered) + pageSize - 1) \div pageSize]

\* getMemoriesPage(page, filters): init, then a page of the records that
\* pass the filters
getMemoriesPage(page, filters, loadOk, cleanupOk) ==
  /\ InitOutcomes(loadOk, cleanupOk)
  /\ LET loaded == init(loadOk, cleanupOk)
     IN /\ initialized' = TRUE
        /\ memories' = loaded.memories
        /\ storage' = loaded.storage
        /\ last' = Report("getMemoriesPage", "DONE", Len(loaded.memories),
                          Value(PageOf(loaded.memories, page, filters)))
  /\ UNCHANGED <<searchCache, envVars, backendVars, calls>>

\* searchMemories(query, filters): init; without a query and without a
\* key in filters, the first page; otherwise the records that hold a word
\* of the query and pass the filters, sorted by score when there is a
\* query and by timestamp when there is none. results starts as
\* this.memories and stays that array when there is no query and no
\* filter is applied (Array.prototype.filter returns a new array): sort
\* then sorts the collection itself
searchMemories(query, filters, loadOk, cleanupOk) ==
  /\ InitOutcomes(loadOk, cleanupOk)
  /\ LET loaded == init(loadOk, cleanupOk)
         queryTerms == Split(ToLowerCase(query), Whitespace)
         Matches(m) == \E i \in DOMAIN queryTerms :
                         Includes(ToLowerCase(DocumentText(m)), queryTerms[i])
         found == IF query # <<>> THEN SelectSeq(loaded.memories, Matches)
                  ELSE loaded.memories
         filtered == ApplyFilters(found, filters)
         results == IF query # <<>>
                      THEN SortByScore(calculateTFIDFScores(query, filtered))
                      ELSE SortByTimestamp(filtered)
         anyFilter == \/ "category" \in DOMAIN filters /\ filters.category # ""
                      \/ "platform" \in DOMAIN filters /\ filters.platform # <<>>
                      \/ "dateFrom" \in DOMAIN filters /\ filters.dateFrom # 0
                      \/ "dateTo" \in DOMAIN filters /\ filters.dateTo # 0
                      \/ "tags" \in DOMAIN filters /\ filters.tags # <<>>
     IN /\ initialized' = TRUE
        /\ storage' = loaded.storage
        /\ IF query = <<>> /\ DOMAIN filters = {}
             THEN /\ memories' = loaded.memories
                  /\ last' = Report("searchMemories", "PAGE", Len(loaded.memories),
                                    Value(PageOf(loaded.memories, 0, filters)))
             ELSE /\ memories' = IF query = <<>> /\ ~anyFilter
                                   THEN results ELSE loaded.memories
                  /\ last' = Report("searchMemories", "DONE", Len(loaded.memories),
                                    Value([memories |-> results,
                                           total |-> Len(results),
                                           query |-> query,
                                           filters |-> filters]))
  /\ UNCHANGED <<searchCache, envVars, backendVars, calls>>

(***************************************************************************)
(* SpecReads: one caller that saves on two pages and reads the collection  *)
(* with getRelevantMemories, getMemoriesPage and searchMemories            *)
(***************************************************************************)
\* The filters arguments: none, one whose only field is empty, a category,
\* and a platform with a date
FilterInputs ==
  {<<>>, [category |-> ""], [category |-> "code"],
   [platform |-> <<"c", "h", "a", "t">>, dateFrom |-> StartNow + 1]}

SpecReads ==
  /\ Constructed(Hrefs, {NothingStored}, {BackendAbsent})
  /\ [][\/ Tick(StartNow + 4)
        \/ \E h \in Hrefs : Navigate(h)
        \/ \E c \in {ContentA, ContentC, ContentF} :
             saveMemory(c, [type |-> "conversation"], "explanation", "ok", "ok", "ok",
                        TRUE, TRUE, {TRUE}, {0})
        \/ \E q \in {QueryApi, QueryShort} : getRelevantMemories(q, 5, 0, TRUE, TRUE)
        \/ \E f \in FilterInputs : getMemoriesPage(0, f, TRUE, TRUE)
        \/ \E q \in {<<>>, QueryApi}, f \in FilterInputs :
             searchMemories(q, f, TRUE, TRUE)]_vars

\* C37: getRelevantMemories, getMemoriesPage and searchMemories, called on
\* an engine that has loaded its collection, with any query and any
\* filters, leave the collection as it is: the same records with the same
\* fields in the same order
C37_ReadsKeepCollection ==
  [][initialized =>
       /\ \A q \in {QueryApi, QueryShort} :
            getRelevantMemories(q, 5, 0, TRUE, TRUE) => memories' = memories
       /\ \A f \in FilterInputs :
            getMemoriesPage(0, f, TRUE, TRUE) => memories' = memories
       /\ \A q \in {<<>>, QueryApi}, f \in FilterInputs :
            searchMemories(q, f, TRUE, TRUE) => memories' = memories]_vars

\* C38: in a search that ranks, when the collection holds one record, or
\* holds records that all have every term of the query, every score is 0
\* and the result is empty
C38_SharedTermsScoreZero ==
  [][\A q \in ScoreQueries :
       (/\ last'.op = "getRelevantMemories"
        /\ last'.outcome = "COMPUTED"
        /\ getRelevantMemories(q, 5, 0, TRUE, TRUE))
       => \A scored \in {calculateTFIDFScores(q, memories')} :
            \A terms \in {preprocessText(q)} :
              (\/ Len(memories') = 1
               \/ /\ memories' # <<>>
                  /\ \A k \in DOMAIN terms, d \in DOMAIN scored :
                       terms[k] \in Range(scored[d].terms))
              => /\ \A d \in DOMAIN scored :
                      scored[d].score[1] = 0 /\ scored[d].score[2] > 0
                 /\ last'.ret = Value(<<>>)]_vars

(***************************************************************************)
(* The export as JSON and the import of the exported text                  *)
(***************************************************************************)
\* The tokens that JSON.stringify writes for the elements of an array, one
\* element after the other: null and a number are one literal; an object is
\* an opening brace, one member (the name and the value) for each property
\* it has, in the order of their insertion, and a closing brace
RECURSIVE StringifyElements(_)
StringifyElements(items) ==
  IF Len(items) = 0 THEN <<>>
  ELSE LET m == Head(items)
           names == <<"id", "content", "timestamp", "source", "url",
                      "conversationId", "category", "summary", "tags", "type",
                      "lastUpdated">>
           Own(k) == k \in DOMAIN m
           own == SelectSeq(names, Own)
       IN (IF "kind" \in DOMAIN m
             THEN <<[tok |-> "literal", value |-> m]>>
             ELSE <<[tok |-> "{"]>>
                  \o [i \in DOMAIN own |->
                        [tok |-> "member", key |-> own[i], value |-> m[own[i]]]]
                  \o <<[tok |-> "}"]>>)
          \o StringifyElements(Tail(items))

\* A variant of JSONstringify that writes the last element first
JSONstringifyReversed(items) ==
  <<[tok |-> "["]>>
  \o StringifyElements([i \in 1..Len(items) |-> items[Len(items) + 1 - i]])
  \o <<[tok |-> "]"]>>

\* JSON.stringify(this.memories, null, 2): the text, as its tokens
JSONstringify(items) ==
  <<[tok |-> "["]>> \o StringifyElements(items) \o <<[tok |-> "]"]>>

\* What JSON.parse makes of the tokens between the brackets: a literal is
\* an element; the members up to the next closing brace make an object
\* that has each name once, with the value of the last member of that name
RECURSIVE ParseElements(_, _)
ParseElements(tokens, parsed) ==
  IF Len(tokens) = 0 THEN parsed
  ELSE IF Head(tokens).tok = "literal"
    THEN ParseElements(Tail(tokens), Append(parsed, Head(tokens).value))
    ELSE LET close == CHOOSE i \in DOMAIN tokens :
                        /\ tokens[i].tok = "}"
                        /\ \A j \in 1..(i - 1) : tokens[j].tok # "}"
             members == SubSeq(tokens, 2, close - 1)
             LastOf(k) == CHOOSE i \in DOMAIN members :
                            /\ members[i].key = k
                            /\ \A j \in (i + 1)..Len(members) : members[j].key # k
             object == [k \in {members[i].key : i \in DOMAIN members} |->
                          members[LastOf(k)].value]
         IN ParseElements(SubSeq(tokens, close + 1, Len(tokens)),
                          Append(parsed, object))

\* JSON.parse(jsonData) of a text of tokens, as the argument of importMemories
JSONparse(text) ==
  IF Len(text) >= 2 /\ text[1].tok = "[" /\ text[Len(text)].tok = "]"
    THEN JsonArray(ParseElements(SubSeq(text, 2, Len(text) - 1), <<>>))
    ELSE JsonInvalid

\* exportMemories('json'): init, then the text of the collection
exportMemories(loadOk, cleanupOk) ==
  /\ InitOutcomes(loadOk, cleanupOk)
  /\ LET loaded == init(loadOk, cleanupOk)
     IN /\ initialized' = TRUE
        /\ memories' = loaded.memories
        /\ storage' = loaded.storage
        /\ last' = Report("exportMemories", "DONE", Len(loaded.memories),
                          Value(JSONstringify(loaded.memories)))
  /\ UNCHANGED <<searchCache, envVars, backendVars, calls>>

\* An engine over nothing or over the data of an earlier session: saves,
\* imports of texts written elsewhere (arrays of one or two records, two
\* of them with one id), exports, and imports of the text that the last
\* call exported
SpecRoundTrip ==
  /\ Constructed({HrefChat}, {NothingStored, EarlierSession}, {BackendAbsent})
  /\ [][\/ \E t \in StoreInstants : Tick(t)
        \/ \E c \in StoreContents :
             saveMemory(c, [type |-> "conversation"], "explanation", "ok", "ok", "ok",
                        TRUE, TRUE, {TRUE}, {0})
        \/ \E items \in {<<ExportedC>>, <<ExportedC, ExportedTwin>>,
                          <<ExportedTwin, SavedEarlier(ContentF, StartNow - 40, HrefChat)>>},
              merge \in BOOLEAN :
             importMemories(JsonArray(items), merge, TRUE)
        \/ \E loadOk \in BOOLEAN : exportMemories(loadOk, TRUE)
        \/ \E merge \in BOOLEAN :
             /\ last.op = "exportMemories"
             /\ importMemories(JSONparse(last.ret.value), merge, TRUE)
        \/ Reload]_vars

\* C39: importMemories of the text that exportMemories('json') has just
\* returned leaves the collection as it was exported, the same elements in
\* the same order, in merge mode, where it adds nothing, and in replace mode
C39_ExportImportRoundTrip ==
  [][\A merge \in BOOLEAN :
       (/\ last.op = "exportMemories"
        /\ last'.op = "importMemories"
        /\ importMemories(JSONparse(last.ret.value), merge, TRUE))
       => /\ memories' = memories
          /\ last'.outcome = "DONE"
               => /\ last'.ret.value.imported = Len(memories)
                  /\ last'.ret.value.total = Len(memories)]_vars

\* An import has taken as many elements as the collection holds, three or
\* more, and has added none, and one of the records is one that
\* saveMemory created on this page: the imported text was the export of
\* this collection, the other texts being of one or two records
C39_Witness ==
  /\ last.op = "importMemories"
  /\ last.outcome = "DONE"
  /\ Len(memories) >= 3
  /\ last.ret.value.imported = Len(memories)
  /\ last.ret.value.total = Len(memories)
  /\ \E i \in DOMAIN memories : memories[i].timestamp >= StartNow

====
